---------------------------- MODULE Spec2Model ----------------------------
(***************************************************************************)
(* A model of HydroEdit's editing-state engine (src/hydroedit.py): the     *)
(* EditorState document/cursor/selection, the Command variants with their  *)
(* execute/undo methods, the CommandHandler undo/redo deques, and the      *)
(* soft-wrap function wrap_line with its cache.                            *)
(*                                                                         *)
(* Python strings are modelled as sequences of one-character strings, the  *)
(* document as a sequence of such lines.  Indices are Python's (0-based);  *)
(* list/str indexing raises IndexError out of range and wraps negative     *)
(* indices, slicing clamps.  An exception is not caught anywhere in main:  *)
(* it ends the session, which the model records in `crashed`.              *)
(***************************************************************************)
EXTENDS Integers, Sequences, FiniteSets, TLC

VARIABLES
    state,          \* the EditorState object (a record of its fields)
    undo_stack,     \* CommandHandler.undo_stack, oldest first
    redo_stack,     \* CommandHandler.redo_stack, oldest first
    crashed,        \* an IndexError left a handler: the session is over
    log,            \* history variable: the last calls, with the state before each
    nops,           \* history variable: number of calls made so far
    WRAP_CACHE,     \* the wrap cache: <<key, value>> entries in insertion order
    wrap_result,    \* what the last wrap_line call returned
    wrap_arg,       \* history variable: the arguments of the last wrap_line call
    wrap_calls,     \* history variable: number of wrap_line calls so far
    screen,         \* main's locals of the last drawing: terminal size, display lines
    lookup,         \* the last get_content_line_index call and what it returned
    spans,          \* the last highlight_syntax call and what it returned
    search_state,   \* the SearchState object, with the last call made on it
    disk            \* the text of the file at state.filepath

vars == <<state, undo_stack, redo_stack, crashed, log, nops,
          WRAP_CACHE, wrap_result, wrap_arg, wrap_calls,
          screen, lookup, spans, search_state, disk>>

editorVars == <<state, undo_stack, redo_stack, crashed, log, nops>>
wrapVars == <<WRAP_CACHE, wrap_result, wrap_arg, wrap_calls>>
viewVars == <<screen, lookup, spans, search_state, disk>>

---------------------------------------------------------------------------
(* Bounds of the model and constants of the program *)

MaxOps == 3

MaxTyped == 101

MaxWrapLen == 4

MaxWidth == 3

MaxWrapCalls == 2

MaxFill == 1001

MaxRewraps == 1

MaxTermHeight == 24

MaxDisplayIndex == 5

MaxLineLen == 4

MaxSearchLen == 3

MaxPatternLen == 2

MaxHistory == 3

MaxFileLen == 3

MaxSaves == 2

MaxKeys == 4

MaxCalls == 4

MAX_UNDO == 100

MIN_WIDTH == 80

MIN_HEIGHT == 24

WRAP_CACHE_SIZE == 1000

COLOR_KEYWORD == 6

COLOR_STRING == 7

COLOR_COMMENT == 8

COLOR_FUNCTION == 9

COLOR_NUMBER == 10

COLOR_OPERATOR == 11

---------------------------------------------------------------------------
(* Python built-ins *)

Min(a, b) == IF a < b THEN a ELSE b

Max(a, b) == IF a > b THEN a ELSE b

\* A slice bound i normalised against length n, as s[i:] / s[:i] do.
SliceIndex(i, n) == IF i < 0 THEN Max(0, i + n) ELSE Min(i, n)

\* s[lo:hi]
Slice(s, lo, hi) ==
    LET a == SliceIndex(lo, Len(s))
        b == SliceIndex(hi, Len(s))
    IN  IF a >= b THEN <<>> ELSE SubSeq(s, a + 1, b)

\* s[lo:]
SliceFrom(s, lo) == Slice(s, lo, Len(s))

\* s[:hi]
SliceTo(s, hi) == Slice(s, 0, hi)

\* s[i] is defined (no IndexError)
IndexOK(s, i) == i < Len(s) /\ i >= 0 - Len(s)

\* s[i], for IndexOK(s, i)
At(s, i) == IF i < 0 THEN s[i + Len(s) + 1] ELSE s[i + 1]

\* s[i] = v, for IndexOK(s, i)
SetAt(s, i, v) == [s EXCEPT ![IF i < 0 THEN i + Len(s) + 1 ELSE i + 1] = v]

\* del s[i], for IndexOK(s, i)
DelAt(s, i) ==
    LET k == IF i < 0 THEN i + Len(s) + 1 ELSE i + 1
    IN  SubSeq(s, 1, k - 1) \o SubSeq(s, k + 1, Len(s))

\* s.insert(i, v)
InsertAt(s, i, v) ==
    LET k == SliceIndex(i, Len(s))
    IN  SubSeq(s, 1, k) \o <<v>> \o SubSeq(s, k + 1, Len(s))

\* c.isspace()
IsSpace(c) == c \in {" ", "\t", "\n"}

\* c.isalnum()
IsAlnum(c) ==
    c \in {"a", "b", "c", "e", "i", "n", "o", "t", "A", "B",
           "0", "1", "2", "3", "4", "5", "6", "7", "8", "9"}

\* s.lstrip(): s without its leading whitespace characters
lstrip(s) ==
    LET n == CHOOSE k \in 0..Len(s) :
                 /\ \A i \in 1..k : IsSpace(s[i])
                 /\ k < Len(s) => ~IsSpace(s[k + 1])
    IN  SubSeq(s, n + 1, Len(s))

\* ' ' * n
Spaces(n) == [i \in 1..n |-> " "]

\* c.lower()
LowerChar(c) == CASE c = "A" -> "a" [] c = "B" -> "b" [] OTHER -> c

\* s.lower()
lower(s) == [i \in 1..Len(s) |-> LowerChar(s[i])]

RECURSIVE str_replace(_, _, _)
\* s.replace(pattern, replacement): leftmost non-overlapping occurrences
str_replace(s, pattern, replacement) ==
    IF pattern = <<>>
    THEN IF s = <<>> THEN replacement
         ELSE replacement \o <<s[1]>> \o str_replace(Tail(s), pattern, replacement)
    ELSE IF Len(s) < Len(pattern) THEN s
    ELSE IF SubSeq(s, 1, Len(pattern)) = pattern
         THEN replacement
              \o str_replace(SubSeq(s, Len(pattern) + 1, Len(s)), pattern, replacement)
         ELSE <<s[1]>> \o str_replace(Tail(s), pattern, replacement)

---------------------------------------------------------------------------
(* EditorState *)

None == <<>>

EditorState(content, cursor_y, cursor_x) ==
    [content |-> content, cursor_y |-> cursor_y, cursor_x |-> cursor_x,
     scroll_y |-> 0, cutbuf |-> <<>>,
     selection_start |-> None, selection_end |-> None,
     insert_mode |-> TRUE, is_modified |-> FALSE, shift_pressed |-> FALSE]

EditorState_ensure_valid_cursor_position(st) ==
    LET y == Max(0, Min(st.cursor_y, Len(st.content) - 1))
    IN  [st EXCEPT !.cursor_y = y,
                   !.cursor_x = Max(0, Min(st.cursor_x, Len(At(st.content, y))))]

EditorState_update_selection(st) ==
    [st EXCEPT !.selection_start =
                   IF st.selection_start = None
                   THEN <<st.cursor_y, st.cursor_x>> ELSE st.selection_start,
               !.selection_end = <<st.cursor_y, st.cursor_x>>]

EditorState_clear_selection(st) ==
    [st EXCEPT !.selection_start = None, !.selection_end = None]

\* The Document invariant of the cursor: a row of the document, a column of that row.
CursorInBounds(st) ==
    /\ 0 <= st.cursor_y /\ st.cursor_y < Len(st.content)
    /\ 0 <= st.cursor_x /\ st.cursor_x <= Len(st.content[st.cursor_y + 1])

---------------------------------------------------------------------------
(* Commands: one record shape for all variants; a variant uses its own     *)
(* fields and leaves the others at their defaults.                         *)

Command(type) ==
    [type |-> type, direction |-> "", amount |-> 0, char |-> <<>>,
     pattern |-> <<>>, replacement |-> <<>>, case_sensitive |-> TRUE,
     old_y |-> 0, old_x |-> 0, deleted_char |-> <<>>, old_content |-> <<>>]

MoveCommand(direction, amount) ==
    [Command("Move") EXCEPT !.direction = direction, !.amount = amount]

InsertCommand(char) == [Command("Insert") EXCEPT !.char = char]

BackspaceCommand == Command("Backspace")

DeleteCommand == Command("Delete")

EnterCommand == Command("Enter")

ReplaceCommand(pattern, replacement, case_sensitive) ==
    [Command("Replace") EXCEPT !.pattern = pattern, !.replacement = replacement,
                               !.case_sensitive = case_sensitive]

FormatCommand == Command("Format")

\* What a Command method leaves behind: the state, the command object, and
\* whether it raised (then state and command are those at the call).
Returned(st, cmd) == [raised |-> FALSE, state |-> st, command |-> cmd]

Raised(st, cmd) == [raised |-> TRUE, state |-> st, command |-> cmd]

Remember(cmd, st) == [cmd EXCEPT !.old_y = st.cursor_y, !.old_x = st.cursor_x]

---------------------------------------------------------------------------
(* MoveCommand *)

\* MoveCommand.execute without its final clamp of the column to the row's length.
MoveCommand_execute_unclamped(cmd, st) ==
    LET content == st.content
        y == st.cursor_y
        x == st.cursor_x
        d == cmd.direction
        y1 == IF d = "up" THEN Max(0, y - cmd.amount)
              ELSE IF d = "down" THEN Min(Len(content) - 1, y + cmd.amount)
              ELSE y
        x1 == IF d = "left" THEN Max(0, x - cmd.amount)
              ELSE IF d = "right" THEN Min(Len(At(content, y)), x + cmd.amount)
              ELSE x
        moved == [st EXCEPT !.cursor_y = y1, !.cursor_x = x1]
    IN  IF d = "right" /\ ~IndexOK(content, y)
        THEN Raised(st, cmd)
        ELSE Returned(IF st.shift_pressed
                      THEN EditorState_update_selection(moved)
                      ELSE EditorState_clear_selection(moved),
                      Remember(cmd, st))

MoveCommand_execute(cmd, st) ==
    LET content == st.content
        y == st.cursor_y
        x == st.cursor_x
        d == cmd.direction
        y1 == IF d = "up" THEN Max(0, y - cmd.amount)
              ELSE IF d = "down" THEN Min(Len(content) - 1, y + cmd.amount)
              ELSE y
        x1 == IF d = "left" THEN Max(0, x - cmd.amount)
              ELSE IF d = "right" THEN Min(Len(At(content, y)), x + cmd.amount)
              ELSE x
        x2 == Min(x1, Len(At(content, y1)))
        moved == [st EXCEPT !.cursor_y = y1, !.cursor_x = x2]
    IN  IF (d = "right" /\ ~IndexOK(content, y)) \/ ~IndexOK(content, y1)
        THEN Raised(st, cmd)
        ELSE Returned(IF st.shift_pressed
                      THEN EditorState_update_selection(moved)
                      ELSE EditorState_clear_selection(moved),
                      Remember(cmd, st))

MoveCommand_undo(cmd, st) ==
    Returned([st EXCEPT !.cursor_y = cmd.old_y, !.cursor_x = cmd.old_x], cmd)

---------------------------------------------------------------------------
(* InsertCommand *)

InsertCommand_execute(cmd, st) ==
    LET y == st.cursor_y
        x == st.cursor_x
        line == At(st.content, y)
        new_line ==
            IF st.insert_mode
            THEN SliceTo(line, x) \o cmd.char \o SliceFrom(line, x)
            ELSE IF x < Len(line)
                 THEN SliceTo(line, x) \o cmd.char \o SliceFrom(line, x + 1)
                 ELSE SliceTo(line, x) \o cmd.char
    IN  IF ~IndexOK(st.content, y)
        THEN Raised(st, cmd)
        ELSE Returned(EditorState_clear_selection(
                          [st EXCEPT !.content = SetAt(st.content, y, new_line),
                                     !.cursor_x = x + 1,
                                     !.is_modified = TRUE]),
                      Remember(cmd, st))

InsertCommand_undo(cmd, st) ==
    LET y == st.cursor_y
        x == st.cursor_x
        line == At(st.content, y)
    IN  IF ~IndexOK(st.content, y)
        THEN Raised(st, cmd)
        ELSE Returned([st EXCEPT !.content = SetAt(st.content, y,
                                     SliceTo(line, x - 1) \o SliceFrom(line, x)),
                                 !.cursor_y = cmd.old_y,
                                 !.cursor_x = cmd.old_x],
                      cmd)

---------------------------------------------------------------------------
(* BackspaceCommand *)

BackspaceCommand_execute(cmd, st) ==
    LET content == st.content
        y == st.cursor_y
        x == st.cursor_x
        line == At(content, y)
        done(s) == EditorState_clear_selection([s EXCEPT !.is_modified = TRUE])
    IN  IF x > 0
        THEN IF ~IndexOK(content, y) \/ ~IndexOK(line, x - 1)
             THEN Raised(st, cmd)
             ELSE Returned(
                      done([st EXCEPT !.content = SetAt(content, y,
                                          SliceTo(line, x - 1) \o SliceFrom(line, x)),
                                      !.cursor_x = x - 1]),
                      [Remember(cmd, st) EXCEPT !.deleted_char = <<At(line, x - 1)>>])
        ELSE IF y > 0
        THEN IF ~IndexOK(content, y - 1) \/ ~IndexOK(content, y)
             THEN Raised(st, cmd)
             ELSE Returned(
                      done([st EXCEPT !.content = DelAt(SetAt(content, y - 1,
                                          At(content, y - 1) \o At(content, y)), y),
                                      !.cursor_x = Len(At(content, y - 1)),
                                      !.cursor_y = y - 1]),
                      [Remember(cmd, st) EXCEPT !.deleted_char = <<"\n">>])
        ELSE Returned(done(st), Remember(cmd, st))

BackspaceCommand_undo(cmd, st) ==
    LET y == st.cursor_y
        x == st.cursor_x
        line == At(st.content, y)
    IN  IF ~IndexOK(st.content, y)
        THEN Raised(st, cmd)
        ELSE IF cmd.deleted_char = <<"\n">>
        THEN Returned([st EXCEPT !.content = SetAt(st.content, y,
                                     SliceTo(line, x) \o <<"\n">> \o SliceFrom(line, x)),
                                 !.cursor_y = y + 1,
                                 !.cursor_x = 0],
                      cmd)
        ELSE Returned([st EXCEPT !.content = SetAt(st.content, y,
                                     SliceTo(line, x) \o cmd.deleted_char \o SliceFrom(line, x)),
                                 !.cursor_x = x + 1],
                      cmd)

---------------------------------------------------------------------------
(* DeleteCommand *)

DeleteCommand_execute(cmd, st) ==
    LET content == st.content
        y == st.cursor_y
        x == st.cursor_x
        line == At(content, y)
        done(s) == EditorState_clear_selection([s EXCEPT !.is_modified = TRUE])
    IN  IF ~IndexOK(content, y)
        THEN Raised(st, cmd)
        ELSE IF x < Len(line)
        THEN Returned(
                 done([st EXCEPT !.content = SetAt(content, y,
                                     SliceTo(line, x) \o SliceFrom(line, x + 1))]),
                 [Remember(cmd, st) EXCEPT !.deleted_char = <<At(line, x)>>])
        ELSE IF y < Len(content) - 1
        THEN Returned(
                 done([st EXCEPT !.content = DelAt(SetAt(content, y,
                                     line \o At(content, y + 1)), y + 1)]),
                 [Remember(cmd, st) EXCEPT !.deleted_char = <<"\n">>])
        ELSE Returned(done(st), Remember(cmd, st))

DeleteCommand_undo(cmd, st) ==
    LET y == st.cursor_y
        x == st.cursor_x
        line == At(st.content, y)
    IN  IF ~IndexOK(st.content, y)
        THEN Raised(st, cmd)
        ELSE IF cmd.deleted_char = <<"\n">>
        THEN Returned([st EXCEPT !.content = SetAt(st.content, y,
                                     SliceTo(line, x) \o <<"\n">> \o SliceFrom(line, x)),
                                 !.cursor_y = y + 1,
                                 !.cursor_x = 0],
                      cmd)
        ELSE Returned([st EXCEPT !.content = SetAt(st.content, y,
                                     SliceTo(line, x) \o cmd.deleted_char \o SliceFrom(line, x))],
                      cmd)

---------------------------------------------------------------------------
(* EnterCommand *)

EnterCommand_execute(cmd, st) ==
    LET content == st.content
        y == st.cursor_y
        x == st.cursor_x
        line == At(content, y)
        indent == Len(line) - Len(lstrip(line))
        indent_str == Spaces(indent)
        new_line == indent_str \o SliceFrom(line, x)
    IN  IF ~IndexOK(content, y)
        THEN Raised(st, cmd)
        ELSE Returned(EditorState_clear_selection(
                          [st EXCEPT !.content = InsertAt(SetAt(content, y, SliceTo(line, x)),
                                                          y + 1, new_line),
                                     !.cursor_y = y + 1,
                                     !.cursor_x = indent,
                                     !.is_modified = TRUE]),
                      Remember(cmd, st))

EnterCommand_undo(cmd, st) ==
    LET content == st.content
        y == st.cursor_y
    IN  IF ~IndexOK(content, y - 1) \/ ~IndexOK(content, y)
        THEN Raised(st, cmd)
        ELSE Returned([st EXCEPT !.content = DelAt(SetAt(content, y - 1,
                                     At(content, y - 1) \o At(content, y)), y),
                                 !.cursor_y = cmd.old_y,
                                 !.cursor_x = cmd.old_x],
                      cmd)

---------------------------------------------------------------------------
(* ReplaceCommand, FormatCommand *)

replace_text(content, pattern, replacement, case_sensitive) ==
    LET pat == IF case_sensitive THEN pattern ELSE lower(pattern)
        src == IF case_sensitive THEN content
               ELSE [i \in 1..Len(content) |-> lower(content[i])]
    IN  [i \in 1..Len(src) |-> str_replace(src[i], pat, replacement)]

\* The paths of format_code that need no external formatter: a language that
\* is neither python nor javascript, or one whose formatter is not installed.
format_code(content) == content

\* execute taking its snapshot after the replacement instead of before it.
ReplaceCommand_execute_snapshot_after(cmd, st) ==
    LET replaced == replace_text(st.content, cmd.pattern,
                                 cmd.replacement, cmd.case_sensitive)
    IN  Returned([st EXCEPT !.content = replaced, !.is_modified = TRUE],
                 [cmd EXCEPT !.old_content = replaced])

ReplaceCommand_execute(cmd, st) ==
    Returned([st EXCEPT !.content = replace_text(st.content, cmd.pattern,
                                                 cmd.replacement, cmd.case_sensitive),
                        !.is_modified = TRUE],
             [cmd EXCEPT !.old_content = st.content])

ReplaceCommand_undo(cmd, st) ==
    Returned([st EXCEPT !.content = cmd.old_content], cmd)

FormatCommand_execute(cmd, st) ==
    Returned([st EXCEPT !.content = format_code(st.content), !.is_modified = TRUE],
             [cmd EXCEPT !.old_content = st.content])

FormatCommand_undo(cmd, st) ==
    Returned([st EXCEPT !.content = cmd.old_content], cmd)

---------------------------------------------------------------------------
(* Dynamic dispatch of command.execute(state) and command.undo(state) *)

Command_execute(cmd, st) ==
    CASE cmd.type = "Move" -> MoveCommand_execute(cmd, st)
      [] cmd.type = "Insert" -> InsertCommand_execute(cmd, st)
      [] cmd.type = "Backspace" -> BackspaceCommand_execute(cmd, st)
      [] cmd.type = "Delete" -> DeleteCommand_execute(cmd, st)
      [] cmd.type = "Enter" -> EnterCommand_execute(cmd, st)
      [] cmd.type = "Replace" -> ReplaceCommand_execute(cmd, st)
      [] cmd.type = "Format" -> FormatCommand_execute(cmd, st)

Command_undo(cmd, st) ==
    CASE cmd.type = "Move" -> MoveCommand_undo(cmd, st)
      [] cmd.type = "Insert" -> InsertCommand_undo(cmd, st)
      [] cmd.type = "Backspace" -> BackspaceCommand_undo(cmd, st)
      [] cmd.type = "Delete" -> DeleteCommand_undo(cmd, st)
      [] cmd.type = "Enter" -> EnterCommand_undo(cmd, st)
      [] cmd.type = "Replace" -> ReplaceCommand_undo(cmd, st)
      [] cmd.type = "Format" -> FormatCommand_undo(cmd, st)

---------------------------------------------------------------------------
(* CommandHandler: a handler is the record of its two deques; a method     *)
(* returns the deques and the state it leaves, or that it raised.          *)

CommandHandler == [undo_stack |-> <<>>, redo_stack |-> <<>>]

\* A deque made without maxlen: append never drops an item.
deque_append_unbounded(dq, item) == Append(dq, item)

\* A deque made with maxlen=MAX_UNDO + 1.
deque_append_one_more(dq, item) ==
    IF Len(dq) >= MAX_UNDO + 1 THEN Tail(dq) \o <<item>> ELSE Append(dq, item)

\* deque(maxlen=MAX_UNDO).append(item): a full deque drops its oldest item
deque_append(dq, item) ==
    IF Len(dq) >= MAX_UNDO THEN Tail(dq) \o <<item>> ELSE Append(dq, item)

\* deque.pop(): the deque without its newest item
deque_pop(dq) == SubSeq(dq, 1, Len(dq) - 1)

Handled(raised, st, undo, redo) ==
    [raised |-> raised, state |-> st, undo_stack |-> undo, redo_stack |-> redo]

\* execute_command without redo_stack.clear().
CommandHandler_execute_command_keeping_redo(h, command, st) ==
    LET r == Command_execute(command, st)
    IN  IF r.raised
        THEN Handled(TRUE, st, h.undo_stack, h.redo_stack)
        ELSE Handled(FALSE, r.state, deque_append(h.undo_stack, r.command), h.redo_stack)

CommandHandler_execute_command(h, command, st) ==
    LET r == Command_execute(command, st)
    IN  IF r.raised
        THEN Handled(TRUE, st, h.undo_stack, h.redo_stack)
        ELSE Handled(FALSE, r.state, deque_append(h.undo_stack, r.command), <<>>)

\* undo without its test of the stack: deque.pop() of an empty deque raises.
CommandHandler_undo_unguarded(h, st) ==
    IF h.undo_stack = <<>>
    THEN Handled(TRUE, st, h.undo_stack, h.redo_stack)
    ELSE LET command == h.undo_stack[Len(h.undo_stack)]
             r == Command_undo(command, st)
         IN  IF r.raised
             THEN Handled(TRUE, st, h.undo_stack, h.redo_stack)
             ELSE Handled(FALSE, r.state, deque_pop(h.undo_stack),
                          deque_append(h.redo_stack, r.command))

CommandHandler_undo(h, st) ==
    IF h.undo_stack = <<>>
    THEN Handled(FALSE, st, h.undo_stack, h.redo_stack)
    ELSE LET command == h.undo_stack[Len(h.undo_stack)]
             r == Command_undo(command, st)
         IN  IF r.raised
             THEN Handled(TRUE, st, h.undo_stack, h.redo_stack)
             ELSE Handled(FALSE, r.state, deque_pop(h.undo_stack),
                          deque_append(h.redo_stack, r.command))

CommandHandler_redo(h, st) ==
    IF h.redo_stack = <<>>
    THEN Handled(FALSE, st, h.undo_stack, h.redo_stack)
    ELSE LET command == h.redo_stack[Len(h.redo_stack)]
             r == Command_execute(command, st)
         IN  IF r.raised
             THEN Handled(TRUE, st, h.undo_stack, h.redo_stack)
             ELSE Handled(FALSE, r.state, deque_append(h.undo_stack, r.command),
                          deque_pop(h.redo_stack))

---------------------------------------------------------------------------
(* The editing session: documents the editor is opened on, the commands    *)
(* issued, and the calls on the CommandHandler.                            *)

\* Documents as load_file returns them: at least one line.
Files ==
    { << <<>> >>,
      << <<" ", " ", "a", "b">> >>,
      << <<"\t", "a">> >>,
      << <<"a", "b">>, <<>> >> }

Directions == {"up", "down", "left", "right"}

Amounts == {1, 2}

Chars == {<<"a">>}

\* (pattern, replacement, case_sensitive) of a Replace-all
Replacements == { << <<"a">>, <<>>, TRUE >>, << <<"a">>, <<"b", "b">>, FALSE >> }

Commands ==
    {MoveCommand(d, n) : d \in Directions, n \in Amounts}
    \cup {InsertCommand(c) : c \in Chars}
    \cup {BackspaceCommand, DeleteCommand, EnterCommand, FormatCommand}
    \cup {ReplaceCommand(r[1], r[2], r[3]) : r \in Replacements}

handler == [undo_stack |-> undo_stack, redo_stack |-> redo_stack]

\* A call recorded in the log: which method, on which command, and the state
\* and deques it found.
Call(op, command) ==
    [op |-> op, command |-> command, state |-> state,
     undo_stack |-> undo_stack, redo_stack |-> redo_stack]

\* The command a pop of dq would return; the default command if there is none.
Top(dq) == IF dq = <<>> THEN Command("") ELSE dq[Len(dq)]

Logged(call) == IF Len(log) < 3 THEN Append(log, call) ELSE Tail(log) \o <<call>>

\* The effect of a CommandHandler call that left r.
Effect(call, r) ==
    /\ ~crashed
    /\ crashed' = r.raised
    /\ state' = r.state
    /\ undo_stack' = r.undo_stack
    /\ redo_stack' = r.redo_stack
    /\ log' = Logged(call)
    /\ nops' = nops + 1
    /\ UNCHANGED wrapVars
    /\ UNCHANGED viewVars

ExecuteCommand(command) ==
    /\ nops < MaxOps
    /\ Effect(Call("execute", command),
              CommandHandler_execute_command(handler, command, state))

Undo ==
    /\ nops < MaxOps
    /\ Effect(Call("undo", Top(undo_stack)), CommandHandler_undo(handler, state))

Redo ==
    /\ nops < MaxOps
    /\ Effect(Call("redo", Top(redo_stack)), CommandHandler_redo(handler, state))

\* The Insert key of main toggles insert/overwrite mode.
ToggleInsertMode ==
    /\ ~crashed
    /\ nops < MaxOps
    /\ state' = [state EXCEPT !.insert_mode = ~state.insert_mode]
    /\ log' = Logged(Call("insert_key", Command("")))
    /\ nops' = nops + 1
    /\ UNCHANGED <<undo_stack, redo_stack, crashed>>
    /\ UNCHANGED wrapVars
    /\ UNCHANGED viewVars

InitWrapIdle ==
    /\ WRAP_CACHE = <<>>
    /\ wrap_result = <<>>
    /\ wrap_arg = <<>>
    /\ wrap_calls = 0
    /\ screen = None
    /\ lookup = None
    /\ spans = None
    /\ search_state = None
    /\ disk = None

Init ==
    /\ \E content \in Files :
         \E y \in 0..(Len(content) - 1) :
           \E x \in 0..Len(content[y + 1]) :
             state = EditorState(content, y, x)
    /\ undo_stack = CommandHandler.undo_stack
    /\ redo_stack = CommandHandler.redo_stack
    /\ crashed = FALSE
    /\ log = <<>>
    /\ nops = 0
    /\ InitWrapIdle

Next ==
    \/ \E command \in Commands : ExecuteCommand(command)
    \/ Undo
    \/ Redo
    \/ ToggleInsertMode

Spec == Init /\ [][Next]_vars

---------------------------------------------------------------------------
(* A typing session: characters are typed one after the other into an     *)
(* empty document, and undone and redone; a character is typed only when   *)
(* nothing is left to redo.  nops counts the characters typed.             *)

\* The character typed after n others.
TypedChar(n) == IF n = 0 THEN <<"b">> ELSE <<"a">>

\* The first k characters typed, as one line.
TypedPrefix(k) == [i \in 1..k |-> TypedChar(i - 1)[1]]

HistoryEffect(r) ==
    /\ ~crashed
    /\ crashed' = r.raised
    /\ state' = r.state
    /\ undo_stack' = r.undo_stack
    /\ redo_stack' = r.redo_stack
    /\ UNCHANGED log
    /\ UNCHANGED wrapVars
    /\ UNCHANGED viewVars

TypeChar ==
    /\ nops < MaxTyped
    /\ redo_stack = <<>>
    /\ HistoryEffect(CommandHandler_execute_command(
                         handler, InsertCommand(TypedChar(nops)), state))
    /\ nops' = nops + 1

UndoTyped ==
    /\ HistoryEffect(CommandHandler_undo(handler, state))
    /\ UNCHANGED nops

RedoTyped ==
    /\ HistoryEffect(CommandHandler_redo(handler, state))
    /\ UNCHANGED nops

InitHistory ==
    /\ state = EditorState(<< <<>> >>, 0, 0)
    /\ undo_stack = CommandHandler.undo_stack
    /\ redo_stack = CommandHandler.redo_stack
    /\ crashed = FALSE
    /\ log = <<>>
    /\ nops = 0
    /\ InitWrapIdle

NextHistory ==
    \/ TypeChar
    \/ UndoTyped
    \/ RedoTyped

SpecHistory == InitHistory /\ [][NextHistory]_vars

\* The same session with a character typed at any time, also when commands
\* are left to redo.
TypeCharAnyTime ==
    /\ nops < MaxTyped
    /\ HistoryEffect(CommandHandler_execute_command(
                         handler, InsertCommand(TypedChar(nops)), state))
    /\ nops' = nops + 1

NextStacks ==
    \/ TypeCharAnyTime
    \/ UndoTyped
    \/ RedoTyped

SpecStacks == InitHistory /\ [][NextStacks]_vars

---------------------------------------------------------------------------
(* wrap_line *)

\* s.split(): the maximal runs of non-whitespace characters
split(s) ==
    LET starts == {i \in 1..Len(s) : ~IsSpace(s[i]) /\ (i = 1 \/ IsSpace(s[i - 1]))}
        start(k) == CHOOSE i \in starts : Cardinality({j \in starts : j < i}) = k - 1
        end(i) == CHOOSE j \in i..Len(s) :
                      /\ \A m \in i..j : ~IsSpace(s[m])
                      /\ j < Len(s) => IsSpace(s[j + 1])
    IN  [k \in 1..Cardinality(starts) |-> SubSeq(s, start(k), end(start(k)))]

RECURSIVE join(_)
\* ' '.join(words)
join(words) ==
    IF words = <<>> THEN <<>>
    ELSE IF Len(words) = 1 THEN words[1]
    ELSE words[1] \o <<" ">> \o join(Tail(words))

RECURSIVE break_loop(_, _, _, _)
break_loop(rest, parts, current, max_width) ==
    IF rest = <<>>
    THEN IF current # <<>> THEN Append(parts, current) ELSE parts
    ELSE IF Len(current) + 1 > max_width
         THEN break_loop(Tail(rest), Append(parts, current), <<rest[1]>>, max_width)
         ELSE break_loop(Tail(rest), parts, Append(current, rest[1]), max_width)

break_long_word(word, max_width) ==
    IF Len(word) <= max_width THEN <<word>>
    ELSE break_loop(word, <<>>, <<>>, max_width)

\* indent_str + part for each part
Indented(indent_str, parts) == [i \in 1..Len(parts) |-> indent_str \o parts[i]]

RECURSIVE wrap_loop(_, _, _, _, _, _)
\* The loop over the words, and the flush that follows it.
wrap_loop(words, wrapped, current_line, current_length, indent_str, max_content_width) ==
    IF words = <<>>
    THEN IF current_line # <<>>
         THEN Append(wrapped, indent_str \o join(current_line))
         ELSE wrapped
    ELSE LET word == words[1]
         IN  IF Len(word) > max_content_width
             THEN wrap_loop(Tail(words),
                            (IF current_line # <<>>
                             THEN Append(wrapped, indent_str \o join(current_line))
                             ELSE wrapped)
                            \o Indented(indent_str, break_long_word(word, max_content_width)),
                            <<>>, 0, indent_str, max_content_width)
             ELSE IF current_length + Len(word) + (IF current_line # <<>> THEN 1 ELSE 0)
                     > max_content_width
             THEN wrap_loop(Tail(words),
                            Append(wrapped, indent_str \o join(current_line)),
                            <<word>>, Len(word), indent_str, max_content_width)
             ELSE wrap_loop(Tail(words), wrapped, Append(current_line, word),
                            current_length + Len(word) + 1,
                            indent_str, max_content_width)

\* What wrap_line computes on a cache miss.
wrap_line_result(line, width) ==
    IF Len(line) <= width THEN <<line>>
    ELSE LET indent == Len(line) - Len(lstrip(line))
             indent_str == Spaces(indent)
             text == SliceFrom(line, indent)
             words == split(text)
         IN  IF lstrip(line) = <<>> THEN <<line>>
             ELSE IF words = <<>> THEN <<line>>
             ELSE wrap_loop(words, <<>>, <<>>, 0, indent_str, width - indent)

\* The position of key in the cache, 0 if it is not there.
CacheIndex(cache, key) ==
    IF \E i \in 1..Len(cache) : cache[i].key = key
    THEN CHOOSE i \in 1..Len(cache) : cache[i].key = key
    ELSE 0

\* wrap_line with the cache looked up by the line alone, whatever the width.
wrap_line_keyed_by_line(cache, line, width) ==
    LET cache_key == <<line, width>>
        i == IF \E j \in 1..Len(cache) : cache[j].key[1] = line
             THEN CHOOSE j \in 1..Len(cache) : cache[j].key[1] = line
             ELSE 0
        result == wrap_line_result(line, width)
    IN  IF i # 0
        THEN [result |-> cache[i].value, cache |-> cache]
        ELSE [result |-> result,
              cache |-> Append(IF Len(cache) >= WRAP_CACHE_SIZE THEN Tail(cache) ELSE cache,
                               [key |-> cache_key, value |-> result])]

\* wrap_line with a cache in which a hit makes the entry the newest one.
wrap_line_refreshing_hits(cache, line, width) ==
    LET cache_key == <<line, width>>
        i == CacheIndex(cache, cache_key)
        result == wrap_line_result(line, width)
    IN  IF i # 0
        THEN [result |-> cache[i].value,
              cache |-> Append(SubSeq(cache, 1, i - 1) \o SubSeq(cache, i + 1, Len(cache)),
                               cache[i])]
        ELSE [result |-> result,
              cache |-> Append(IF Len(cache) >= WRAP_CACHE_SIZE THEN Tail(cache) ELSE cache,
                               [key |-> cache_key, value |-> result])]

\* wrap_line(line, width) called with the cache as `cache`: what it returns
\* and the cache it leaves.
wrap_line(cache, line, width) ==
    LET cache_key == <<line, width>>
        i == CacheIndex(cache, cache_key)
        result == wrap_line_result(line, width)
    IN  IF i # 0
        THEN [result |-> cache[i].value, cache |-> cache]
        ELSE [result |-> result,
              cache |-> Append(IF Len(cache) >= WRAP_CACHE_SIZE THEN Tail(cache) ELSE cache,
                               [key |-> cache_key, value |-> result])]

---------------------------------------------------------------------------
(* Calls of wrap_line on lines and widths drawn from bounded sets *)

WrapAlphabet == {"a", " "}

RECURSIVE StringsUpTo(_, _)
\* The strings over alphabet of length at most n.
StringsUpTo(alphabet, n) ==
    IF n = 0 THEN {<<>>}
    ELSE LET shorter == StringsUpTo(alphabet, n - 1)
         IN  shorter \cup {Append(s, c) : s \in shorter, c \in alphabet}

WrapLines == StringsUpTo(WrapAlphabet, MaxWrapLen)

Widths == 1..MaxWidth

WrapLine(line, width) ==
    /\ wrap_calls < MaxWrapCalls
    /\ LET r == wrap_line(WRAP_CACHE, line, width)
       IN  /\ WRAP_CACHE' = r.cache
           /\ wrap_result' = r.result
    /\ wrap_arg' = <<line, width>>
    /\ wrap_calls' = wrap_calls + 1
    /\ UNCHANGED editorVars
    /\ UNCHANGED viewVars

InitWrap ==
    /\ state = EditorState(<< <<>> >>, 0, 0)
    /\ undo_stack = CommandHandler.undo_stack
    /\ redo_stack = CommandHandler.redo_stack
    /\ crashed = FALSE
    /\ log = <<>>
    /\ nops = 0
    /\ InitWrapIdle

NextWrap == \E line \in WrapLines : \E width \in Widths : WrapLine(line, width)

SpecWrap == InitWrap /\ [][NextWrap]_vars

---------------------------------------------------------------------------
(* A session that fills the wrap cache: one line is wrapped at the widths  *)
(* 1, 2, 3, ... (the terminal is resized), each a key of its own, and now  *)
(* and then wrapped again at a width used before.  nops counts the widths  *)
(* used, wrap_calls the calls at a width used before.                      *)

FillLine == <<"a", " ", "a">>

RewrapWidths == {1}

WrapCall(line, width) ==
    /\ LET r == wrap_line(WRAP_CACHE, line, width)
       IN  /\ WRAP_CACHE' = r.cache
           /\ wrap_result' = r.result
    /\ wrap_arg' = <<line, width>>
    /\ UNCHANGED <<state, undo_stack, redo_stack, crashed, log>>
    /\ UNCHANGED viewVars

FillCache ==
    /\ nops < MaxFill
    /\ WrapCall(FillLine, nops + 1)
    /\ nops' = nops + 1
    /\ UNCHANGED wrap_calls

Rewrap(width) ==
    /\ wrap_calls < MaxRewraps
    /\ WrapCall(FillLine, width)
    /\ wrap_calls' = wrap_calls + 1
    /\ UNCHANGED nops

NextCache ==
    \/ FillCache
    \/ \E width \in RewrapWidths : Rewrap(width)

SpecCache == InitWrap /\ [][NextCache]_vars

---------------------------------------------------------------------------
(* The main loop: each iteration wraps the document into display lines,    *)
(* adjusts the scroll offset to the cursor, draws, and waits for a key.    *)

RECURSIVE wrap_content(_, _, _, _)
\* display_lines.extend(wrap_line(line, text_width)) for each line of content.
\* (wrap_line leaves its key in the cache; comparing the cache to the empty
\* one has each call computed before the loop goes on.)
wrap_content(cache, content, text_width, display_lines) ==
    IF content = <<>> THEN [display_lines |-> display_lines, cache |-> cache]
    ELSE LET r == wrap_line(cache, Head(content), text_width)
         IN  IF r.cache # <<>> /\ Len(display_lines) >= 0
             THEN wrap_content(r.cache, Tail(content), text_width, display_lines \o r.result)
             ELSE [display_lines |-> display_lines, cache |-> cache]

RECURSIVE display_index_loop(_, _, _, _, _, _)
display_index_loop(cache, content, cursor_y, text_width, i, display_index) ==
    IF i >= cursor_y
    THEN [raised |-> FALSE, result |-> display_index, cache |-> cache]
    ELSE IF ~IndexOK(content, i)
    THEN [raised |-> TRUE, result |-> display_index, cache |-> cache]
    ELSE LET r == wrap_line(cache, At(content, i), text_width)
         IN  IF r.cache # <<>> /\ display_index >= 0
             THEN display_index_loop(r.cache, content, cursor_y, text_width, i + 1,
                                     display_index + Len(r.result))
             ELSE [raised |-> FALSE, result |-> display_index, cache |-> cache]

get_display_line_index(cache, content, cursor_y, text_width) ==
    display_index_loop(cache, content, cursor_y, text_width, 0, 0)

\* line.startswith(' ' * (len(line) - len(line.lstrip())))
StartsWithSpacesOfIndent(line) ==
    \A i \in 1..(Len(line) - Len(lstrip(line))) : line[i] = " "

\* The list get_content_line_index builds: the counter's value at each
\* display line, the counter being increased after a display line that does
\* not start with as many spaces as it has leading whitespace.
content_line_map(display_lines) ==
    [i \in 1..Len(display_lines) |->
        Cardinality({j \in 1..(i - 1) : ~StartsWithSpacesOfIndent(display_lines[j])})]

\* For display_index >= 0.
get_content_line_index(display_lines, display_index) ==
    IF display_index >= Len(display_lines)
    THEN Len(display_lines) - 1
    ELSE At(content_line_map(display_lines), display_index)

\* The two while loops of main on state.scroll_y without the min() that
\* follows them.
adjust_scroll_unclamped(scroll_y, display_cursor_y, display_lines, box_h) ==
    LET down == IF display_cursor_y - scroll_y >= box_h - 2
                THEN display_cursor_y - (box_h - 2) + 1
                ELSE scroll_y
    IN  IF display_cursor_y - down < 0 THEN display_cursor_y ELSE down

\* The two while loops and the final min() of main on state.scroll_y, for
\* box_h - 2 >= 1.
adjust_scroll(scroll_y, display_cursor_y, display_lines, box_h) ==
    LET down == IF display_cursor_y - scroll_y >= box_h - 2
                THEN display_cursor_y - (box_h - 2) + 1
                ELSE scroll_y
        up == IF display_cursor_y - down < 0 THEN display_cursor_y ELSE down
        max_scroll == Max(0, Len(display_lines) - (box_h - 2))
    IN  Min(up, max_scroll)

\* The keys of main that move the cursor without a command.
NavigationKeys == {"KEY_UP", "KEY_DOWN", "KEY_PPAGE", "KEY_NPAGE", "Ctrl+B", "Ctrl+V"}

\* main's handling of a navigation key other than a shifted arrow: the shift
\* flag is off, so the handler drops the selection.
navigate(st, key, box_h) ==
    LET content == st.content
        y == st.cursor_y
        x == st.cursor_x
        y1 == CASE key = "KEY_UP" -> IF y > 0 THEN y - 1 ELSE y
                [] key = "KEY_DOWN" -> IF y < Len(content) - 1 THEN y + 1 ELSE y
                [] key = "KEY_PPAGE" -> Max(0, y - (box_h - 2))
                [] key = "KEY_NPAGE" -> Min(Len(content) - 1, y + (box_h - 2))
                [] key = "Ctrl+B" -> 0
                [] key = "Ctrl+V" -> Len(content) - 1
        x1 == CASE key = "Ctrl+B" -> 0
                [] key = "Ctrl+V" -> Len(At(content, y1))
                [] OTHER -> Min(x, Len(At(content, y1)))
    IN  [st EXCEPT !.cursor_y = y1, !.cursor_x = x1,
                   !.shift_pressed = FALSE,
                   !.selection_start = None, !.selection_end = None]

\* A line of 73 characters, two words of 36: it wraps at a text width of 72.
LongLine == [i \in 1..73 |-> IF i = 37 THEN " " ELSE "a"]

Repeated(line, n) == [i \in 1..n |-> line]

\* Documents taller than the text area, with and without wrapping lines.
ViewFiles ==
    { Repeated(<<"a">>, 21),
      Repeated(<<>>, 10) \o <<LongLine>> \o Repeated(<<>>, 8) \o <<LongLine, LongLine>> }

TermHeights == MIN_HEIGHT..MaxTermHeight

\* The narrowest terminal, where LongLine wraps, and the next one, where it
\* does not.
TermWidths == {MIN_WIDTH, MIN_WIDTH + 1}

\* One iteration of main's loop from its top to getch, on a terminal of h
\* rows and w columns.
Draw(h, w) ==
    LET box_h == h - 4
        box_w == w - 4
        text_width == box_w - 4
    IN  \E wrapped \in {wrap_content(WRAP_CACHE, state.content, text_width, <<>>)} :
        \E index \in {get_display_line_index(wrapped.cache, state.content,
                                             state.cursor_y, text_width)} :
        \E scroll_y \in {adjust_scroll(state.scroll_y, index.result,
                                       wrapped.display_lines, box_h)} :
          /\ ~crashed
          /\ ~index.raised
          /\ state' = EditorState_ensure_valid_cursor_position(
                          [state EXCEPT !.scroll_y = scroll_y])
          /\ WRAP_CACHE' = index.cache
          /\ screen' = [at_getch |-> TRUE, box_h |-> box_h, text_width |-> text_width,
                        display_lines |-> wrapped.display_lines,
                        display_cursor_y |-> index.result,
                        scroll_before |-> state.scroll_y]
          /\ lookup' = None
          /\ UNCHANGED <<undo_stack, redo_stack, crashed, log, nops>>
          /\ UNCHANGED <<wrap_result, wrap_arg, wrap_calls, spans, search_state, disk>>

\* The key read by getch is a navigation key.
Navigate(key) ==
    /\ screen # None
    /\ screen.at_getch
    /\ state' = navigate(state, key, screen.box_h)
    /\ screen' = [screen EXCEPT !.at_getch = FALSE]
    /\ lookup' = None
    /\ UNCHANGED <<undo_stack, redo_stack, crashed, log, nops>>
    /\ UNCHANGED wrapVars
    /\ UNCHANGED <<spans, search_state, disk>>

InitView ==
    /\ \E content \in ViewFiles : state = EditorState(content, 0, 0)
    /\ undo_stack = CommandHandler.undo_stack
    /\ redo_stack = CommandHandler.redo_stack
    /\ crashed = FALSE
    /\ log = <<>>
    /\ nops = 0
    /\ InitWrapIdle

NextView ==
    \/ \E h \in TermHeights : \E w \in TermWidths : Draw(h, w)
    \/ \E key \in NavigationKeys : Navigate(key)

SpecView == InitView /\ [][NextView]_vars

---------------------------------------------------------------------------
(* Calls of get_content_line_index on the display lines of small           *)
(* documents, each followed by get_display_line_index for the content line *)
(* it returned.                                                            *)

IndexLines == {<<>>, <<"a">>, <<"a", " ", "a">>, <<" ", "a">>, <<"\t", "a">>}

IndexFiles ==
    {<<l>> : l \in IndexLines} \cup {<<l, m>> : l \in IndexLines, m \in IndexLines}

ContentLineAt(text_width, display_index) ==
    \E wrapped \in {wrap_content(WRAP_CACHE, state.content, text_width, <<>>)} :
    \E content_line \in {get_content_line_index(wrapped.display_lines, display_index)} :
    \E back \in {get_display_line_index(wrapped.cache, state.content, content_line,
                                        text_width)} :
        /\ lookup' = [text_width |-> text_width,
                      display_lines |-> wrapped.display_lines,
                      display_index |-> display_index,
                      content_line |-> content_line,
                      raised |-> back.raised,
                      display_again |-> back.result]
        /\ WRAP_CACHE' = back.cache
        /\ UNCHANGED editorVars
        /\ UNCHANGED <<wrap_result, wrap_arg, wrap_calls, screen, spans, search_state, disk>>

InitIndex ==
    /\ \E content \in IndexFiles : state = EditorState(content, 0, 0)
    /\ undo_stack = CommandHandler.undo_stack
    /\ redo_stack = CommandHandler.redo_stack
    /\ crashed = FALSE
    /\ log = <<>>
    /\ nops = 0
    /\ InitWrapIdle

NextIndex ==
    \E text_width \in Widths : \E d \in 0..MaxDisplayIndex : ContentLineAt(text_width, d)

SpecIndex == InitIndex /\ [][NextIndex]_vars

---------------------------------------------------------------------------
(* Syntax highlighting.  Offsets into a line count from 0, as in the code: *)
(* the character at offset p of line is line[p + 1].                       *)

\* The pattern classes of SYNTAX_PATTERNS['python'], in the order of the dict.
SYNTAX_PATTERNS ==
    [language \in {"python"} |->
        <<"keywords", "strings", "comments", "functions", "numbers", "operators">>]

\* \d, \w and [a-zA-Z_] of the patterns
IsDigit(c) == c \in {"0", "1", "2", "3", "4", "5", "6", "7", "8", "9"}

IsWord(c) == IsAlnum(c) \/ c = "_"

IsLetter(c) == IsWord(c) /\ ~IsDigit(c)

\* [+\-*/=<>!&|^~] of the operators pattern
IsOperator(c) == c \in {"+", "-", "*", "/", "=", "<", ">", "!", "&", "|", "^", "~"}

\* \b at offset p: a word character on exactly one side
WordBoundary(line, p) ==
    (p > 0 /\ IsWord(line[p])) # (p < Len(line) /\ IsWord(line[p + 1]))

\* Words of the alternation of the keywords pattern.
Keywords == {<<"i", "n">>, <<"i", "f">>, <<"a", "s">>}

\* The end of the longest stretch from offset p of characters of the set.
RunEnd(line, p, chars) ==
    CHOOSE e \in p..Len(line) :
        /\ \A i \in (p + 1)..e : line[i] \in chars
        /\ e < Len(line) => line[e + 1] \notin chars

\* pattern.match(line, p) for the pattern of a class: the end offset of the
\* match that starts at offset p, or -1 when the pattern does not match there.
match_end(pattern_type, line, p) ==
    LET chars == {line[i] : i \in 1..Len(line)}
        words == {c \in chars : IsWord(c)}
        spaces == {c \in chars : IsSpace(c)}
        digits == {c \in chars : IsDigit(c)}
        operators == {c \in chars : IsOperator(c)}
    IN
    CASE pattern_type = "keywords" ->
             LET keywords == {w \in Keywords :
                              /\ p + Len(w) <= Len(line)
                              /\ SubSeq(line, p + 1, p + Len(w)) = w
                              /\ WordBoundary(line, p)
                              /\ WordBoundary(line, p + Len(w))}
             IN  IF keywords = {} THEN -1 ELSE p + Len(CHOOSE w \in keywords : TRUE)
      [] pattern_type = "strings" ->
             LET closing == {q \in (p + 1)..(Len(line) - 1) : line[q + 1] = line[p + 1]}
             IN  IF line[p + 1] \in {"'", "\""} /\ closing # {}
                 THEN 1 + CHOOSE q \in closing : \A r \in closing : q <= r
                 ELSE -1
      [] pattern_type = "comments" ->
             IF line[p + 1] = "#" THEN Len(line) ELSE -1
      [] pattern_type = "functions" ->
             LET name_end == RunEnd(line, p, words)
                 space_end == RunEnd(line, name_end, spaces)
             IN  IF /\ WordBoundary(line, p)
                    /\ IsLetter(line[p + 1])
                    /\ space_end < Len(line)
                    /\ line[space_end + 1] = "("
                 THEN space_end + 1
                 ELSE -1
      [] pattern_type = "numbers" ->
             LET int_end == RunEnd(line, p, digits)
                 frac_end == IF /\ int_end + 1 < Len(line)
                                /\ line[int_end + 1] = "."
                                /\ IsDigit(line[int_end + 2])
                             THEN RunEnd(line, int_end + 1, digits)
                             ELSE int_end
             IN  IF ~(WordBoundary(line, p) /\ IsDigit(line[p + 1])) THEN -1
                 ELSE IF WordBoundary(line, frac_end) THEN frac_end
                 ELSE IF WordBoundary(line, int_end) THEN int_end
                 ELSE -1
      [] pattern_type = "operators" ->
             IF IsOperator(line[p + 1]) THEN RunEnd(line, p, operators) ELSE -1

\* list(pattern.finditer(line)) from offset pos on: the spans of the matches,
\* each search starting where the match before ended.
RECURSIVE finditer(_, _, _)
finditer(pattern_type, line, pos) ==
    LET starts == {p \in pos..(Len(line) - 1) : match_end(pattern_type, line, p) # -1}
        start == CHOOSE p \in starts : \A q \in starts : p <= q
        end == match_end(pattern_type, line, start)
    IN  IF starts = {} THEN <<>>
        ELSE <<[start |-> start, end |-> end]>> \o finditer(pattern_type, line, end)

\* The colour dict of highlight_syntax, for the classes of the table.
color(pattern_type, language) ==
    CASE pattern_type = "keywords" -> COLOR_KEYWORD
      [] pattern_type = "strings" -> COLOR_STRING
      [] pattern_type = "comments" -> COLOR_COMMENT
      [] pattern_type = "functions" -> COLOR_FUNCTION
      [] pattern_type = "numbers" -> COLOR_NUMBER
      [] pattern_type = "operators" -> COLOR_OPERATOR
      [] OTHER -> 0

\* The body of the inner loop that takes every match, also one that starts
\* before last_end.
accept_match_unordered(acc, line, pattern_type, language, match) ==
    LET gap == IF match.start > acc.last_end
               THEN <<<<0, SubSeq(line, acc.last_end + 1, match.start)>>>>
               ELSE <<>>
    IN  [highlights |-> acc.highlights \o gap \o
                        <<<<color(pattern_type, language),
                            SubSeq(line, match.start + 1, match.end)>>>>,
         last_end |-> match.end]

\* The body of the inner loop of highlight_syntax for one match.
accept_match(acc, line, pattern_type, language, match) ==
    IF match.start >= acc.last_end
    THEN LET gap == IF match.start > acc.last_end
                    THEN <<<<0, SubSeq(line, acc.last_end + 1, match.start)>>>>
                    ELSE <<>>
         IN  [highlights |-> acc.highlights \o gap \o
                             <<<<color(pattern_type, language),
                                 SubSeq(line, match.start + 1, match.end)>>>>,
              last_end |-> match.end]
    ELSE acc

\* for match in pattern.finditer(line), from the k-th match on
RECURSIVE matches_loop(_, _, _, _, _, _)
matches_loop(acc, line, pattern_type, language, matches, k) ==
    IF k > Len(matches) THEN acc
    ELSE matches_loop(accept_match(acc, line, pattern_type, language, matches[k]),
                      line, pattern_type, language, matches, k + 1)

\* for pattern_type, pattern in patterns.items(), from the k-th class on
RECURSIVE patterns_loop(_, _, _, _)
patterns_loop(acc, line, language, k) ==
    LET patterns == SYNTAX_PATTERNS[language]
    IN  IF k > Len(patterns) THEN acc
        ELSE patterns_loop(matches_loop(acc, line, patterns[k], language,
                                        finditer(patterns[k], line, 0), 1),
                           line, language, k + 1)

\* highlight_syntax(line, language); an absent language tag is "".
highlight_syntax(line, language) ==
    IF language = "" \/ language \notin DOMAIN SYNTAX_PATTERNS
    THEN <<<<0, line>>>>
    ELSE LET acc == patterns_loop([highlights |-> <<>>, last_end |-> 0],
                                  line, language, 1)
         IN  IF acc.last_end < Len(line)
             THEN acc.highlights \o <<<<0, SubSeq(line, acc.last_end + 1, Len(line))>>>>
             ELSE acc.highlights

\* Characters of the lines highlighted: a word of the keywords, a digit, a
\* quote, a comment sign, an operator, a parenthesis and a blank.
HighlightAlphabet == {"i", "n", "1", "\"", "#", "=", "(", " "}

HighlightLines == StringsUpTo(HighlightAlphabet, MaxLineLen)

\* A language of the table, one that is not in it, and no language.
Languages == {"python", "cobol", ""}

\* The call highlight_syntax(spans.line, spans.language) that main makes for
\* a display line.
HighlightSyntax ==
    /\ ~spans.returned
    /\ spans' = [spans EXCEPT !.highlights = highlight_syntax(spans.line, spans.language),
                              !.returned = TRUE]
    /\ UNCHANGED editorVars
    /\ UNCHANGED wrapVars
    /\ UNCHANGED <<screen, lookup, search_state, disk>>

InitHighlight ==
    /\ state = EditorState(<<<<>>>>, 0, 0)
    /\ undo_stack = CommandHandler.undo_stack
    /\ redo_stack = CommandHandler.redo_stack
    /\ crashed = FALSE
    /\ log = <<>>
    /\ nops = 0
    /\ WRAP_CACHE = <<>>
    /\ wrap_result = <<>>
    /\ wrap_arg = <<>>
    /\ wrap_calls = 0
    /\ screen = None
    /\ lookup = None
    /\ search_state = None
    /\ disk = None
    /\ \E line \in HighlightLines : \E language \in Languages :
           spans = [line |-> line, language |-> language,
                    highlights |-> <<>>, returned |-> FALSE]

NextHighlight == HighlightSyntax

SpecHighlight == InitHighlight /\ [][NextHighlight]_vars

---------------------------------------------------------------------------
(* Search *)

\* line.find(pattern, x): the least offset from x on where pattern is in
\* line, or -1
find(line, pattern, x) ==
    LET found == {p \in x..(Len(line) - Len(pattern)) :
                     SubSeq(line, p + 1, p + Len(pattern)) = pattern}
    IN  IF found = {} THEN -1 ELSE CHOOSE p \in found : \A q \in found : p <= q

\* The whole-word test of search_text for a match at offsets start..end.
IsWholeWord(line, start, end) ==
    /\ start = 0 \/ ~IsAlnum(line[start])
    /\ end = Len(line) \/ ~IsAlnum(line[end + 1])

\* The while loop of search_text on a line that advances by the length of the
\* pattern after a match.
RECURSIVE find_loop_past_match(_, _, _, _, _)
find_loop_past_match(line, pattern, whole_word, y, x) ==
    LET found == find(line, pattern, x)
    IN  IF found = -1 THEN <<>>
        ELSE (IF ~whole_word \/ IsWholeWord(line, found, found + Len(pattern))
              THEN <<<<y, found>>>> ELSE <<>>)
             \o find_loop_past_match(line, pattern, whole_word, y, found + Len(pattern))

\* The while loop of search_text on a line that leaves out the test of the
\* character after the match.
RECURSIVE find_loop_open_ended(_, _, _, _, _)
find_loop_open_ended(line, pattern, whole_word, y, x) ==
    LET found == find(line, pattern, x)
    IN  IF found = -1 THEN <<>>
        ELSE (IF ~whole_word \/ found = 0 \/ ~IsAlnum(line[found])
              THEN <<<<y, found>>>> ELSE <<>>)
             \o find_loop_open_ended(line, pattern, whole_word, y, found + 1)

\* The while loop of search_text on line y, from offset x: the matches it
\* appends.
RECURSIVE find_loop(_, _, _, _, _)
find_loop(line, pattern, whole_word, y, x) ==
    LET found == find(line, pattern, x)
    IN  IF found = -1 THEN <<>>
        ELSE (IF ~whole_word \/ IsWholeWord(line, found, found + Len(pattern))
              THEN <<<<y, found>>>> ELSE <<>>)
             \o find_loop(line, pattern, whole_word, y, found + 1)

\* The characters re gives a meaning of their own.
IsMeta(c) == c \in {"(", ")", "[", "]", "{", "}", "*", "+", "?", ".", "^", "$", "|", "\\"}

\* sre's MAXREPEAT, 4294967295, in digits
MAXREPEAT == <<"4", "2", "9", "4", "9", "6", "7", "2", "9", "5">>

DigitValue(c) ==
    CASE c = "0" -> 0 [] c = "1" -> 1 [] c = "2" -> 2 [] c = "3" -> 3 [] c = "4" -> 4
      [] c = "5" -> 5 [] c = "6" -> 6 [] c = "7" -> 7 [] c = "8" -> 8 [] c = "9" -> 9

\* int(a) >= int(b) for numerals without leading zeros
DecimalAtLeast(a, b) ==
    \/ Len(a) > Len(b)
    \/ /\ Len(a) = Len(b)
       /\ \/ a = b
          \/ \E i \in 1..Len(a) :
                 /\ SubSeq(a, 1, i - 1) = SubSeq(b, 1, i - 1)
                 /\ DigitValue(a[i]) > DigitValue(b[i])

\* int(a) for a short numeral
RECURSIVE DecimalValue(_)
DecimalValue(a) ==
    IF a = <<>> THEN 0
    ELSE 10 * DecimalValue(SubSeq(a, 1, Len(a) - 1)) + DigitValue(a[Len(a)])

\* re.compile(pattern) for a pattern that is a text without special
\* characters, one character with a repetition count c{n}, or has an opening
\* parenthesis that is not closed: the exception raised ("" for none) and the
\* text the compiled pattern matches.
re_compile(pattern) ==
    LET n == Len(pattern)
        count == SubSeq(pattern, 3, n - 1)
    IN  CASE \A i \in 1..n : ~IsMeta(pattern[i]) ->
                 [raised |-> "", text |-> pattern]
          [] /\ n >= 4
             /\ ~IsMeta(pattern[1])
             /\ pattern[2] = "{"
             /\ pattern[n] = "}"
             /\ \A i \in 3..(n - 1) : IsDigit(pattern[i]) ->
                 IF DecimalAtLeast(count, MAXREPEAT)
                 THEN [raised |-> "OverflowError", text |-> <<>>]
                 ELSE [raised |-> "",
                       text |-> [i \in 1..DecimalValue(count) |-> pattern[1]]]
          [] /\ \E i \in 1..n : pattern[i] = "("
             /\ \A i \in 1..n : pattern[i] # ")" ->
                 [raised |-> "re.error", text |-> <<>>]

\* list(pattern.finditer(line)) from offset pos on, for a compiled pattern
\* that matches a text: the matches do not overlap.
RECURSIVE re_finditer(_, _, _, _)
re_finditer(text, ignorecase, line, pos) ==
    LET found == IF ignorecase THEN find(lower(line), lower(text), pos)
                 ELSE find(line, text, pos)
    IN  IF found = -1 THEN <<>>
        ELSE <<[start |-> found, end |-> found + Len(text)]>>
             \o re_finditer(text, ignorecase, line,
                            IF Len(text) = 0 THEN found + 1 ELSE found + Len(text))

\* The matches the regex branch of search_text appends for line y.
regex_matches(matches, line, whole_word, y) ==
    LET kept == SelectSeq(matches,
                    LAMBDA m : ~whole_word \/ IsWholeWord(line, m.start, m.end))
    IN  [k \in 1..Len(kept) |-> <<y, kept[k].start>>]

\* for y in range(start_line, end_line) of search_text, from line y on
RECURSIVE search_lines(_, _, _, _, _, _, _)
search_lines(content, pattern, ignorecase, whole_word, regex, y, end_line) ==
    IF y >= end_line THEN [raised |-> "", matches |-> <<>>]
    ELSE IF y >= Len(content) THEN [raised |-> "IndexError", matches |-> <<>>]
    ELSE LET line == content[y + 1]
             here == IF regex
                     THEN regex_matches(re_finditer(pattern, ignorecase, line, 0),
                                        line, whole_word, y)
                     ELSE find_loop(line, pattern, whole_word, y, 0)
             rest == search_lines(content, pattern, ignorecase, whole_word, regex,
                                  y + 1, end_line)
         IN  [raised |-> rest.raised,
              matches |-> IF rest.raised = "" THEN here \o rest.matches ELSE <<>>]

\* search_text(content, pattern, case_sensitive=..., whole_word=..., regex=...,
\* search_in_selection=..., selection_start=..., selection_end=...): the
\* exception that leaves it ("" for none) and the list it returns.  The
\* handler of re.error turns that exception into an empty list.
search_text(content, pattern, case_sensitive, whole_word, regex, search_in_selection, selection_start, selection_end) ==
    LET compiled == IF regex THEN re_compile(pattern) ELSE [raised |-> "", text |-> pattern]
        pat == IF regex THEN compiled.text
               ELSE IF ~case_sensitive THEN lower(pattern) ELSE pattern
        lines == IF ~regex /\ ~case_sensitive
                 THEN [i \in 1..Len(content) |-> lower(content[i])]
                 ELSE content
        scoped == search_in_selection /\ selection_start # None /\ selection_end # None
        start_line == IF scoped THEN Min(selection_start[1], selection_end[1]) ELSE 0
        end_line == IF scoped THEN Max(selection_start[1], selection_end[1])
                    ELSE Len(content)
    IN  IF pattern = <<>> THEN [raised |-> "", matches |-> <<>>]
        ELSE IF compiled.raised = "re.error" THEN [raised |-> "", matches |-> <<>>]
        ELSE IF compiled.raised # "" THEN [raised |-> compiled.raised, matches |-> <<>>]
        ELSE search_lines(lines, pat, regex /\ ~case_sensitive, whole_word, regex,
                          start_line, end_line)

\* The line of the whole-word example and the lines of up to MaxSearchLen
\* characters over a letter in both cases and a blank.
ConcatenateCat ==
    <<"c", "o", "n", "c", "a", "t", "e", "n", "a", "t", "e", " ", "c", "a", "t">>

SearchLines == StringsUpTo({"a", "A", " "}, MaxSearchLen)

\* Documents of one line, and of two lines with matches on both.
SearchFiles ==
    {<<line>> : line \in SearchLines \cup {ConcatenateCat}}
        \cup {<<line, <<"a", "a", "a">>>> : line \in SearchLines}

\* Patterns: texts, repetition counts below and at MAXREPEAT, an unclosed
\* parenthesis.
SearchPatterns ==
    { <<"a">>, <<"a", "a">>, <<"A">>, <<" ", "a">>, <<"c", "a", "t">>,
      <<"a", "{", "2", "}">>,
      <<"(">>, <<"a", "(">>,
      <<"a", "{">> \o MAXREPEAT \o <<"}">> }

\* The selections of a search: none, and rows 0 to 1 in both orders.
SearchSelections ==
    { <<None, None>>, <<<<0, 0>>, <<1, 1>>>>, <<<<1, 0>>, <<0, 1>>>> }

\* A call of search_text on the document with the selection of the state.
SearchText(pattern, case_sensitive, whole_word, regex, search_in_selection) ==
    /\ ~crashed
    /\ search_state = None
    /\ \E call \in {search_text(state.content, pattern, case_sensitive, whole_word,
                                regex, search_in_selection,
                                state.selection_start, state.selection_end)} :
           /\ search_state' = [pattern |-> pattern,
                               case_sensitive |-> case_sensitive,
                               whole_word |-> whole_word,
                               regex |-> regex,
                               search_in_selection |-> search_in_selection,
                               raised |-> call.raised,
                               matches |-> call.matches]
           /\ crashed' = (call.raised # "")
    /\ UNCHANGED <<state, undo_stack, redo_stack, log, nops>>
    /\ UNCHANGED wrapVars
    /\ UNCHANGED <<screen, lookup, spans, disk>>

InitSearch ==
    /\ \E content \in SearchFiles : \E selection \in SearchSelections :
           /\ selection # <<None, None>> => Len(content) >= 2
           /\ state = [EditorState(content, 0, 0) EXCEPT
                           !.selection_start = selection[1],
                           !.selection_end = selection[2]]
    /\ undo_stack = CommandHandler.undo_stack
    /\ redo_stack = CommandHandler.redo_stack
    /\ crashed = FALSE
    /\ log = <<>>
    /\ nops = 0
    /\ InitWrapIdle

NextSearch ==
    \E pattern \in SearchPatterns :
        \E case_sensitive, whole_word, regex, search_in_selection \in BOOLEAN :
            SearchText(pattern, case_sensitive, whole_word, regex, search_in_selection)

SpecSearch == InitSearch /\ [][NextSearch]_vars

---------------------------------------------------------------------------
(* The search session.  search_state is a record of the SearchState object  *)
(* (self), the object before the last call made on it (before), the name    *)
(* of that call, its argument and what it returned.                          *)

\* SearchState(): the fields of the dataclass with their defaults
SearchState ==
    [pattern |-> <<>>, case_sensitive |-> TRUE, whole_word |-> FALSE, regex |-> FALSE,
     current_match |-> -1, matches |-> <<>>, search_active |-> FALSE,
     search_in_selection |-> FALSE, incremental |-> TRUE, scroll_y |-> 0,
     last_search |-> <<>>, search_history |-> <<>>, history_index |-> -1]

SearchState_reset(self) ==
    [self EXCEPT !.pattern = <<>>, !.current_match = -1, !.matches = <<>>,
                 !.search_active = FALSE, !.search_in_selection = FALSE,
                 !.scroll_y = 0, !.whole_word = FALSE, !.regex = FALSE]

\* next_match without the modulo: the index stops at the last match.
SearchState_next_match_stopping(self) ==
    IF self.matches = <<>> THEN [self |-> self, returned |-> None]
    ELSE LET i == Min(self.current_match + 1, Len(self.matches) - 1)
         IN  [self |-> [self EXCEPT !.current_match = i],
              returned |-> self.matches[i + 1]]

SearchState_next_match(self) ==
    IF self.matches = <<>> THEN [self |-> self, returned |-> None]
    ELSE LET i == (self.current_match + 1) % Len(self.matches)
         IN  [self |-> [self EXCEPT !.current_match = i],
              returned |-> self.matches[i + 1]]

SearchState_previous_match(self) ==
    IF self.matches = <<>> THEN [self |-> self, returned |-> None]
    ELSE LET i == (self.current_match - 1) % Len(self.matches)
         IN  [self |-> [self EXCEPT !.current_match = i],
              returned |-> self.matches[i + 1]]

\* add_to_history without the comparison with last_search.
SearchState_add_to_history_repeating(self, pattern) ==
    IF pattern # <<>>
    THEN [self EXCEPT !.search_history = Append(@, pattern),
                      !.last_search = pattern,
                      !.history_index = Len(self.search_history)]
    ELSE self

SearchState_add_to_history(self, pattern) ==
    IF pattern # <<>> /\ pattern # self.last_search
    THEN [self EXCEPT !.search_history = Append(@, pattern),
                      !.last_search = pattern,
                      !.history_index = Len(self.search_history)]
    ELSE self

SearchState_get_previous_search(self) ==
    IF self.history_index > 0
    THEN [self |-> [self EXCEPT !.history_index = @ - 1],
          returned |-> self.search_history[self.history_index]]
    ELSE [self |-> self, returned |-> None]

SearchState_get_next_search(self) ==
    IF self.history_index < Len(self.search_history) - 1
    THEN [self |-> [self EXCEPT !.history_index = @ + 1],
          returned |-> self.search_history[self.history_index + 2]]
    ELSE [self |-> self, returned |-> None]

\* The keys of show_search_options and the field each toggles; ESC none.
OptionKeys == {"ESC", "c", "w", "r", "i", "s"}

show_search_options(self, key) ==
    CASE key = "c" -> [self EXCEPT !.case_sensitive = ~@]
      [] key = "w" -> [self EXCEPT !.whole_word = ~@]
      [] key = "r" -> [self EXCEPT !.regex = ~@]
      [] key = "i" -> [self EXCEPT !.incremental = ~@]
      [] key = "s" -> [self EXCEPT !.search_in_selection = ~@]
      [] OTHER -> self

\* The top of main's next iteration: an active search takes the scroll
\* offset, which stays 0 for a document that fits the text area.
search_scroll(self, st) ==
    IF self.search_active THEN [self EXCEPT !.scroll_y = st.scroll_y] ELSE self

\* The record of a call on the SearchState object.
Called(call, arg, before, self, returned) ==
    [self |-> self, before |-> before, call |-> call, arg |-> arg, returned |-> returned]

\* main's handling of every key before its branches: a key other than a
\* shifted arrow ends the shift, and unless it is an arrow drops the
\* selection.
unshifted(st) ==
    [st EXCEPT !.shift_pressed = FALSE, !.selection_start = None, !.selection_end = None]

\* A step of the session that leaves all but state and search_state alone.
SessionFrame ==
    /\ ~crashed
    /\ UNCHANGED <<undo_stack, redo_stack, crashed, log, nops>>
    /\ UNCHANGED wrapVars
    /\ UNCHANGED <<screen, lookup, spans, disk>>

\* Tab outside search mode: the options menu, then the search again.
KeyTab(key) ==
    /\ ~search_state.self.search_active
    /\ \E self \in {show_search_options(search_state.self, key)} :
       \E found \in {search_text(state.content, self.pattern, self.case_sensitive,
                                 self.whole_word, self.regex, self.search_in_selection,
                                 None, None)} :
           /\ found.raised = ""
           /\ search_state' = Called("show_search_options", key, search_state.self,
                                     [self EXCEPT !.matches = found.matches,
                                                  !.current_match = -1],
                                     None)
    /\ state' = unshifted(state)
    /\ SessionFrame

\* Ctrl+W outside search mode starts a search.
KeyCtrlW ==
    /\ ~search_state.self.search_active
    /\ state' = unshifted(state)
    /\ search_state' =
           Called("Ctrl+W", None, search_state.self,
                  search_scroll([search_state.self EXCEPT
                                     !.search_active = TRUE,
                                     !.search_in_selection = FALSE,
                                     !.pattern = <<>>,
                                     !.matches = <<>>,
                                     !.current_match = -1], state'),
                  None)
    /\ SessionFrame

\* A printable key in search mode: the pattern grows and is searched for.
KeySearchChar(c) ==
    /\ search_state.self.search_active
    /\ Len(search_state.self.pattern) < MaxPatternLen
    /\ \E pattern \in {Append(search_state.self.pattern, c)} :
       \E found \in {search_text(state.content, pattern,
                                 search_state.self.case_sensitive, FALSE, FALSE,
                                 search_state.self.search_in_selection, None, None)} :
           /\ found.raised = ""
           /\ search_state' = Called("search_text", pattern, search_state.self,
                                     [search_state.self EXCEPT
                                          !.pattern = pattern,
                                          !.matches = found.matches,
                                          !.current_match = -1],
                                     found.matches)
    /\ state' = unshifted(state)
    /\ SessionFrame

\* Backspace in search mode: a pattern that is not empty loses its last
\* character and is searched for.
KeySearchBackspace ==
    /\ search_state.self.search_active
    /\ search_state.self.pattern # <<>>
    /\ \E pattern \in {SubSeq(search_state.self.pattern, 1,
                               Len(search_state.self.pattern) - 1)} :
       \E found \in {search_text(state.content, pattern,
                                 search_state.self.case_sensitive, FALSE, FALSE,
                                 search_state.self.search_in_selection, None, None)} :
           /\ found.raised = ""
           /\ search_state' = Called("search_text", pattern, search_state.self,
                                     [search_state.self EXCEPT
                                          !.pattern = pattern,
                                          !.matches = found.matches,
                                          !.current_match = -1],
                                     found.matches)
    /\ state' = unshifted(state)
    /\ SessionFrame

\* Enter in search mode: the shift flag is off, so next_match is called and
\* the cursor moves to the match it returns.
KeySearchEnter ==
    /\ search_state.self.search_active
    /\ \E call \in {SearchState_next_match(search_state.self)} :
           /\ search_state' = Called("next_match", None, search_state.self,
                                     call.self, call.returned)
           /\ state' = IF call.returned # None
                       THEN [unshifted(state) EXCEPT !.cursor_y = call.returned[1],
                                                     !.cursor_x = call.returned[2]]
                       ELSE unshifted(state)
    /\ SessionFrame

\* A call of search_state.previous_match().
PreviousMatch ==
    /\ \E call \in {SearchState_previous_match(search_state.self)} :
           search_state' = Called("previous_match", None, search_state.self,
                                  call.self, call.returned)
    /\ UNCHANGED state
    /\ SessionFrame

\* ESC in search mode: search_state.reset().
KeySearchEsc ==
    /\ search_state.self.search_active
    /\ search_state' = Called("reset", None, search_state.self,
                              SearchState_reset(search_state.self), None)
    /\ state' = unshifted(state)
    /\ SessionFrame

\* Documents of the session: the matches of "a" are 0, 1 and 4 with the case
\* respected, 1 and 5 without.
SessionFiles ==
    { <<<<"b">>>>, <<<<"a">>>>, <<<<"a", "a", "a">>, <<"a">>>>, <<<<"A", "a">>>> }

SessionChars == {"a", "b"}

InitSession ==
    /\ \E content \in SessionFiles : state = EditorState(content, 0, 0)
    /\ undo_stack = CommandHandler.undo_stack
    /\ redo_stack = CommandHandler.redo_stack
    /\ crashed = FALSE
    /\ log = <<>>
    /\ nops = 0
    /\ WRAP_CACHE = <<>>
    /\ wrap_result = <<>>
    /\ wrap_arg = <<>>
    /\ wrap_calls = 0
    /\ screen = None
    /\ lookup = None
    /\ spans = None
    /\ disk = None
    /\ search_state = Called("SearchState", None, SearchState, SearchState, None)

NextSession ==
    \/ \E key \in OptionKeys : KeyTab(key)
    \/ KeyCtrlW
    \/ \E c \in SessionChars : KeySearchChar(c)
    \/ KeySearchBackspace
    \/ KeySearchEnter
    \/ PreviousMatch
    \/ KeySearchEsc

SpecSession == InitSession /\ [][NextSession]_vars

\* The patterns given to add_to_history: none, and as many different ones
\* as the history is let grow to.
HistoryPatterns == {[i \in 1..n |-> "a"] : n \in 0..MaxHistory}

AddToHistory(pattern) ==
    /\ Len(search_state.self.search_history) < MaxHistory
    /\ search_state' = Called("add_to_history", pattern, search_state.self,
                              SearchState_add_to_history(search_state.self, pattern),
                              None)
    /\ UNCHANGED state
    /\ SessionFrame

GetPreviousSearch ==
    /\ \E call \in {SearchState_get_previous_search(search_state.self)} :
           search_state' = Called("get_previous_search", None, search_state.self,
                                  call.self, call.returned)
    /\ UNCHANGED state
    /\ SessionFrame

GetNextSearch ==
    /\ \E call \in {SearchState_get_next_search(search_state.self)} :
           search_state' = Called("get_next_search", None, search_state.self,
                                  call.self, call.returned)
    /\ UNCHANGED state
    /\ SessionFrame

NextSearchHistory ==
    \/ \E pattern \in HistoryPatterns : AddToHistory(pattern)
    \/ GetPreviousSearch
    \/ GetNextSearch

SpecSearchHistory == InitSession /\ [][NextSearchHistory]_vars

---------------------------------------------------------------------------
(* Files.  disk is the text of the file, a sequence of characters.          *)

\* f.read() of a file opened in text mode: "\r\n" and "\r" are read as "\n".
RECURSIVE read_text(_)
read_text(text) ==
    IF text = <<>> THEN <<>>
    ELSE IF text[1] = "\r" /\ Len(text) >= 2 /\ text[2] = "\n"
    THEN <<"\n">> \o read_text(SubSeq(text, 3, Len(text)))
    ELSE <<IF text[1] = "\r" THEN "\n" ELSE text[1]>> \o read_text(Tail(text))

\* The characters str.splitlines() ends a line at, among those of the model.
IsLineBreak(c) == c \in {"\n", "\r", "\f"}

\* content.splitlines(): the lines without their line breaks; a line break at
\* the end opens no further line.
RECURSIVE splitlines(_)
splitlines(text) ==
    LET breaks == {i \in 1..Len(text) : IsLineBreak(text[i])}
        first == CHOOSE i \in breaks : \A j \in breaks : i <= j
    IN  IF text = <<>> THEN <<>>
        ELSE IF breaks = {} THEN <<text>>
        ELSE <<SubSeq(text, 1, first - 1)>> \o splitlines(SubSeq(text, first + 1, Len(text)))

\* load_file(filepath) for a file with the given text
load_file(text) ==
    LET content == read_text(text)
        has_trailing_newline == content # <<>> /\ content[Len(content)] = "\n"
        lines == IF has_trailing_newline
                 THEN Append(splitlines(content), <<>>)
                 ELSE splitlines(content)
    IN  IF lines # <<>> THEN lines ELSE <<<<>>>>

\* '\n'.join(content)
RECURSIVE join_lines(_)
join_lines(content) ==
    IF content = <<>> THEN <<>>
    ELSE IF Len(content) = 1 THEN content[1]
    ELSE content[1] \o <<"\n">> \o join_lines(Tail(content))

\* save_file(filepath, content): the text the file gets
save_file(content) ==
    IF content # <<>> /\ content[Len(content)] = <<>>
    THEN join_lines(content) \o <<"\n">>
    ELSE join_lines(content)

\* The texts of the files opened: up to MaxFileLen characters, letters and
\* line ends.
FileTexts == StringsUpTo({"a", "\n", "\r"}, MaxFileLen)

FileFrame ==
    /\ ~crashed
    /\ UNCHANGED <<undo_stack, redo_stack, crashed>>
    /\ UNCHANGED wrapVars
    /\ UNCHANGED <<screen, lookup, spans, search_state>>

\* Ctrl+O: save_file(state.filepath, state.content)
KeyCtrlO ==
    /\ nops < MaxSaves
    /\ disk' = save_file(state.content)
    /\ state' = [unshifted(state) EXCEPT !.is_modified = FALSE]
    /\ log' = Append(log, [op |-> "save_file", text |-> disk'])
    /\ nops' = nops + 1
    /\ FileFrame

\* The editor is left with Ctrl+X and started again on the file.
Reopen ==
    /\ log[Len(log)].op = "save_file"
    /\ state' = EditorState(load_file(disk), 0, 0)
    /\ log' = Append(log, [op |-> "load_file", text |-> disk])
    /\ UNCHANGED <<disk, nops>>
    /\ FileFrame

\* main started on a file: the document is what load_file returns.
InitFile ==
    /\ disk \in FileTexts
    /\ state = EditorState(load_file(disk), 0, 0)
    /\ undo_stack = CommandHandler.undo_stack
    /\ redo_stack = CommandHandler.redo_stack
    /\ crashed = FALSE
    /\ log = <<[op |-> "load_file", text |-> disk]>>
    /\ nops = 0
    /\ WRAP_CACHE = <<>>
    /\ wrap_result = <<>>
    /\ wrap_arg = <<>>
    /\ wrap_calls = 0
    /\ screen = None
    /\ lookup = None
    /\ spans = None
    /\ search_state = None

NextFile == KeyCtrlO \/ Reopen

SpecFile == InitFile /\ [][NextFile]_vars

---------------------------------------------------------------------------
(* The keys of main that change the document, outside search mode.  Each    *)
(* action is one turn of main's loop from getch on; the scroll position,    *)
(* which the drawing at the top of the loop sets, is left aside here.       *)

\* main's handling of a shifted arrow before its branches: the shift flag is
\* set and the selection starts or is extended at the cursor.
shifted(st) ==
    [st EXCEPT !.shift_pressed = TRUE,
               !.selection_start = IF st.selection_start = None
                                   THEN <<st.cursor_y, st.cursor_x>>
                                   ELSE st.selection_start,
               !.selection_end = <<st.cursor_y, st.cursor_x>>]

\* main's handling of a plain arrow before its branches: the shift flag is
\* cleared, the selection is kept.
arrowed(st) == [st EXCEPT !.shift_pressed = FALSE]

\* The Ctrl+K branch of main on the state st the key found.
cut_line(h, st) ==
    IF st.selection_start # None /\ st.selection_end # None
    THEN LET forward == st.selection_start[1] < st.selection_end[1]
             start_sel == IF forward THEN st.selection_start ELSE st.selection_end
             end_sel == IF forward THEN st.selection_end ELSE st.selection_start
             cut == Slice(st.content, start_sel[1], end_sel[1] + 1)
         IN  Handled(FALSE,
                     [st EXCEPT !.cutbuf = join_lines(cut),
                                !.content = SliceTo(st.content, start_sel[1])
                                            \o SliceFrom(st.content, end_sel[1] + 1),
                                !.selection_start = None,
                                !.selection_end = None],
                     h.undo_stack, h.redo_stack)
    ELSE IF 0 <= st.cursor_y /\ st.cursor_y < Len(st.content)
    THEN \* state.content.pop(state.cursor_y) is evaluated first, and the
         \* command inserts the line it returned
         CommandHandler_execute_command(
             h, InsertCommand(At(st.content, st.cursor_y)),
             [st EXCEPT !.content = DelAt(st.content, st.cursor_y)])
    ELSE Handled(FALSE, st, h.undo_stack, h.redo_stack)

\* The Ctrl+U branch of main.
uncut(h, st) ==
    IF st.cutbuf # <<>>
    THEN CommandHandler_execute_command(h, InsertCommand(st.cutbuf), st)
    ELSE Handled(FALSE, st, h.undo_stack, h.redo_stack)

\* The KEY_DOWN branch of main.
cursor_down(st) ==
    IF st.cursor_y < Len(st.content) - 1
    THEN LET y == st.cursor_y + 1
             moved == [st EXCEPT !.cursor_y = y,
                                 !.cursor_x = Min(st.cursor_x, Len(At(st.content, y)))]
         IN  IF st.shift_pressed
             THEN EditorState_update_selection(moved)
             ELSE EditorState_clear_selection(moved)
    ELSE st

\* The effect of a key whose branch left r.
KeyEffect(key, r) ==
    /\ ~crashed
    /\ crashed' = r.raised
    /\ state' = r.state
    /\ undo_stack' = r.undo_stack
    /\ redo_stack' = r.redo_stack
    /\ log' = Logged(Call(key, Command("")))
    /\ nops' = nops + 1
    /\ UNCHANGED wrapVars
    /\ UNCHANGED viewVars

KeyCtrlK ==
    /\ nops < MaxKeys
    /\ KeyEffect("Ctrl+K", cut_line(handler, unshifted(state)))

KeyCtrlU ==
    /\ nops < MaxKeys
    /\ KeyEffect("Ctrl+U", uncut(handler, unshifted(state)))

KeyCtrlZ ==
    /\ nops < MaxKeys
    /\ KeyEffect("Ctrl+Z", CommandHandler_undo(handler, unshifted(state)))

KeyChar(c) ==
    /\ nops < MaxKeys
    /\ KeyEffect("char", CommandHandler_execute_command(handler, InsertCommand(c),
                                                        unshifted(state)))

KeyShiftRight ==
    /\ nops < MaxKeys
    /\ KeyEffect("KEY_SRIGHT", Handled(FALSE, shifted(state), undo_stack, redo_stack))

KeyDown ==
    /\ nops < MaxKeys
    /\ KeyEffect("KEY_DOWN", Handled(FALSE, cursor_down(arrowed(state)),
                                     undo_stack, redo_stack))

\* Documents as load_file returns them, of one, two and three lines.
KeyFiles ==
    { << <<"a">> >>,
      << <<"a">>, <<"b">> >>,
      << <<>>, <<"b">>, <<"a", "b">> >> }

InitKeys ==
    /\ \E content \in KeyFiles : state = EditorState(content, 0, 0)
    /\ undo_stack = CommandHandler.undo_stack
    /\ redo_stack = CommandHandler.redo_stack
    /\ crashed = FALSE
    /\ log = <<>>
    /\ nops = 0
    /\ InitWrapIdle

NextKeys ==
    \/ KeyCtrlK
    \/ KeyCtrlU
    \/ KeyCtrlZ
    \/ \E c \in Chars : KeyChar(c)
    \/ KeyShiftRight
    \/ KeyDown

SpecKeys == InitKeys /\ [][NextKeys]_vars

---------------------------------------------------------------------------
(* A session of Replace-all among other commands, with every call kept in  *)
(* the log.                                                                *)

\* Documents with letters of both cases.
ReplaceFiles == { << <<"A", "a">> >>, << <<"a", "B">>, <<"A">> >> }

ReplaceCommands ==
    { ReplaceCommand(<<"a">>, <<"b">>, FALSE),
      ReplaceCommand(<<"a">>, <<>>, TRUE),
      InsertCommand(<<"a">>),
      EnterCommand }

\* The effect of a CommandHandler call that left r; the log keeps every call.
CallEffect(call, r) ==
    /\ ~crashed
    /\ crashed' = r.raised
    /\ state' = r.state
    /\ undo_stack' = r.undo_stack
    /\ redo_stack' = r.redo_stack
    /\ log' = Append(log, call)
    /\ nops' = nops + 1
    /\ UNCHANGED wrapVars
    /\ UNCHANGED viewVars

CallExecute(command) ==
    /\ nops < MaxCalls
    /\ CallEffect(Call("execute", command),
                  CommandHandler_execute_command(handler, command, state))

CallUndo ==
    /\ nops < MaxCalls
    /\ CallEffect(Call("undo", Top(undo_stack)), CommandHandler_undo(handler, state))

CallRedo ==
    /\ nops < MaxCalls
    /\ CallEffect(Call("redo", Top(redo_stack)), CommandHandler_redo(handler, state))

InitReplace ==
    /\ \E content \in ReplaceFiles :
         \E x \in 0..Len(content[1]) : state = EditorState(content, 0, x)
    /\ undo_stack = CommandHandler.undo_stack
    /\ redo_stack = CommandHandler.redo_stack
    /\ crashed = FALSE
    /\ log = <<>>
    /\ nops = 0
    /\ InitWrapIdle

NextReplace ==
    \/ \E command \in ReplaceCommands : CallExecute(command)
    \/ CallUndo
    \/ CallRedo

SpecReplace == InitReplace /\ [][NextReplace]_vars

---------------------------------------------------------------------------
(* One call of wrap_line with an empty cache, on lines that may be         *)
(* indented with blanks or tabs.                                           *)

IndentedAlphabet == {"a", " ", "\t"}

IndentedLines == StringsUpTo(IndentedAlphabet, MaxWrapLen)

WrapOnce(line, width) ==
    /\ wrap_arg = <<>>
    /\ LET r == wrap_line(WRAP_CACHE, line, width)
       IN  /\ WRAP_CACHE' = r.cache
           /\ wrap_result' = r.result
    /\ wrap_arg' = <<line, width>>
    /\ wrap_calls' = wrap_calls + 1
    /\ UNCHANGED editorVars
    /\ UNCHANGED viewVars

NextWrapOnce == \E line \in IndentedLines : \E width \in Widths : WrapOnce(line, width)

SpecWrapOnce == InitWrap /\ [][NextWrapOnce]_vars

---------------------------------------------------------------------------
(* Moves with and without the shift flag.  The flag is a field of the      *)
(* EditorState dataclass: it is given at construction or assigned, as main *)
(* assigns it before its key branches.                                     *)

MoveCommands == {MoveCommand(d, n) : d \in Directions, n \in Amounts}

\* A key step that only sets the flag, as main does for a shifted arrow.
ShiftPressed ==
    /\ nops < MaxCalls
    /\ ~state.shift_pressed
    /\ CallEffect(Call("shift", Command("")),
                  Handled(FALSE, shifted(state), undo_stack, redo_stack))

\* A key step that only clears the flag, as main does for a plain arrow.
ShiftReleased ==
    /\ nops < MaxCalls
    /\ state.shift_pressed
    /\ CallEffect(Call("unshift", Command("")),
                  Handled(FALSE, arrowed(state), undo_stack, redo_stack))

InitSelect ==
    /\ \E content \in KeyFiles :
         \E y \in 0..(Len(content) - 1) :
           \E x \in 0..Len(content[y + 1]) :
             \E shift_pressed \in BOOLEAN :
               state = [EditorState(content, y, x) EXCEPT
                            !.shift_pressed = shift_pressed]
    /\ undo_stack = CommandHandler.undo_stack
    /\ redo_stack = CommandHandler.redo_stack
    /\ crashed = FALSE
    /\ log = <<>>
    /\ nops = 0
    /\ InitWrapIdle

NextSelect ==
    \/ \E command \in MoveCommands : CallExecute(command)
    \/ ShiftPressed
    \/ ShiftReleased

SpecSelect == InitSelect /\ [][NextSelect]_vars

---------------------------------------------------------------------------
(* Properties.  The log gives the calls made last: LastCall is the call    *)
(* that led to the current state, PrevCall the one before it, each with    *)
(* the state and the deques it started from.                               *)

LastCall == log[Len(log)]

PrevCall == log[Len(log) - 1]

Cursor(st) == <<st.cursor_y, st.cursor_x>>

\* The last call was op, the last two were op1 then op2, ...
Did(op) == Len(log) >= 1 /\ LastCall.op = op

DidTwo(op1, op2) == Len(log) >= 2 /\ PrevCall.op = op1 /\ LastCall.op = op2

DidThree(op1, op2, op3) ==
    /\ Len(log) >= 3
    /\ log[Len(log) - 2].op = op1
    /\ PrevCall.op = op2
    /\ LastCall.op = op3

\* The length of a line's leading-whitespace run.
Indent(line) == Len(line) - Len(lstrip(line))

\* The current state and deques are those the last call started from.
LastCallChangedNothing ==
    /\ state = LastCall.state
    /\ undo_stack = LastCall.undo_stack
    /\ redo_stack = LastCall.redo_stack

\* C1: execute_command(cmd) followed immediately by undo leaves the line
\* sequence and the cursor as they were before execute_command, for every
\* command variant, from every document with an in-bounds cursor.
C1_UndoRestoresDocument ==
    (DidTwo("execute", "undo") /\ CursorInBounds(PrevCall.state))
    => /\ ~crashed
       /\ state.content = PrevCall.state.content
       /\ Cursor(state) = Cursor(PrevCall.state)

\* C2: after any sequence of execute_command, undo and redo calls from a
\* document with an in-bounds cursor, the cursor is a row of the document
\* and a column of that row.
C2_CursorAlwaysInBounds == CursorInBounds(state)

\* C3: MoveCommand.execute on an in-bounds cursor leaves the cursor in bounds
\* and the document as it was; a column beyond the length of the row moved
\* to is pulled left to that length.
C3_MoveKeepsCursorInBounds ==
    (Did("execute") /\ LastCall.command.type = "Move" /\ CursorInBounds(LastCall.state))
    => /\ ~crashed
       /\ CursorInBounds(state)
       /\ state.content = LastCall.state.content
       /\ LastCall.state.cursor_x > Len(At(state.content, state.cursor_y))
          => state.cursor_x = Len(At(state.content, state.cursor_y))

\* A Move went to another row that is shorter than the column it left.
C3_MovedToShorterLine ==
    /\ Did("execute")
    /\ LastCall.command.type = "Move"
    /\ CursorInBounds(LastCall.state)
    /\ ~crashed
    /\ state.cursor_y # LastCall.state.cursor_y
    /\ state.cursor_x < LastCall.state.cursor_x

C5_UndoStackBounded ==
    /\ Len(undo_stack) <= MAX_UNDO
    /\ (nops > MAX_UNDO /\ undo_stack # <<>>)
       => undo_stack[1].old_x = nops - MAX_UNDO
    /\ (nops > MAX_UNDO /\ undo_stack = <<>>)
       => /\ state.content = << TypedPrefix(nops - MAX_UNDO) >>
          /\ Cursor(state) = <<0, nops - MAX_UNDO>>
    /\ (nops = MAX_UNDO + 1 /\ undo_stack = <<>>)
       => state.content = << TypedChar(0) >>

\* MAX_UNDO + 1 characters were typed and MAX_UNDO undos made.
C5_AllUndoneAfterEviction ==
    /\ nops = MAX_UNDO + 1
    /\ undo_stack = <<>>
    /\ Len(redo_stack) = MAX_UNDO
    /\ ~crashed

\* C6: EnterCommand.execute on line L at (r, c), n the length of L's leading
\* whitespace, truncates line r to L[0..c), inserts below it L's leading
\* whitespace followed by L[c..], and puts the cursor at (r+1, n).
C6_EnterSplitsKeepingIndent ==
    (Did("execute") /\ LastCall.command.type = "Enter" /\ CursorInBounds(LastCall.state))
    => LET before == LastCall.state
           r == before.cursor_y
           c == before.cursor_x
           L == At(before.content, r)
           n == Indent(L)
       IN  /\ ~crashed
           /\ state.content =
                  InsertAt(SetAt(before.content, r, SubSeq(L, 1, c)), r + 1,
                           SubSeq(L, 1, n) \o SubSeq(L, c + 1, Len(L)))
           /\ Cursor(state) = <<r + 1, n>>

\* C7: undoing an Enter right after executing it on a line with leading
\* whitespace restores the original line and the original cursor.
C7_UndoEnterRestoresLine ==
    (/\ DidTwo("execute", "undo")
     /\ PrevCall.command.type = "Enter"
     /\ CursorInBounds(PrevCall.state)
     /\ Indent(At(PrevCall.state.content, PrevCall.state.cursor_y)) >= 1)
    => /\ ~crashed
       /\ state.content = PrevCall.state.content
       /\ Cursor(state) = Cursor(PrevCall.state)

\* C8: undo with an empty undo stack, and redo with an empty redo stack,
\* change nothing: document, cursor, selection, modified flag, both stacks.
C8_EmptyStackNoOp ==
    /\ (Did("undo") /\ LastCall.undo_stack = <<>>)
       => (~crashed /\ LastCallChangedNothing)
    /\ (Did("redo") /\ LastCall.redo_stack = <<>>)
       => (~crashed /\ LastCallChangedNothing)

\* An undo was called with nothing left to undo, on a modified document
\* with a command to redo.
C8_UndoOnEmptyStack ==
    /\ Did("undo")
    /\ LastCall.undo_stack = <<>>
    /\ LastCall.redo_stack # <<>>
    /\ LastCall.state.is_modified
    /\ ~crashed

\* C9: after execute_command(cmd); undo(); redo() the line sequence and the
\* cursor are those right after execute_command(cmd), the command is back on
\* top of the undo stack and the redo stack is one shorter.
C9_RedoMirrorsUndo ==
    (DidThree("execute", "undo", "redo") /\ CursorInBounds(log[Len(log) - 2].state))
    => /\ ~crashed
       /\ state.content = PrevCall.state.content
       /\ Cursor(state) = Cursor(PrevCall.state)
       /\ undo_stack = PrevCall.undo_stack
       /\ Len(redo_stack) = Len(LastCall.redo_stack) - 1

RECURSIVE Rejoins(_, _)
\* text is the pieces in order, with nothing or one space between a piece
\* and the next.
Rejoins(pieces, text) ==
    IF Len(pieces) = 1 THEN pieces[1] = text
    ELSE /\ Len(text) >= Len(pieces[1])
         /\ SubSeq(text, 1, Len(pieces[1])) = pieces[1]
         /\ LET rest == SubSeq(text, Len(pieces[1]) + 1, Len(text))
            IN  \/ Rejoins(Tail(pieces), rest)
                \/ /\ rest # <<>>
                   /\ rest[1] = " "
                   /\ Rejoins(Tail(pieces), Tail(rest))

\* C10: the sub-lines wrap_line returns, each without the reproduced indent
\* and with the word separators put back between them, are the de-indented
\* line exactly: no character is dropped or duplicated.
C10_WrapRejoinsExactly ==
    wrap_arg # <<>>
    => LET line == wrap_arg[1]
           indent == Indent(line)
       IN  /\ wrap_result # <<>>
           /\ Rejoins([i \in 1..Len(wrap_result) |-> SliceFrom(wrap_result[i], indent)],
                      SliceFrom(line, indent))

\* C11: whatever the cache holds (nothing, the key, or other keys after the
\* key was evicted), wrap_line returns for (line, width) the sub-lines it
\* computes for them with an empty cache.
C11_CacheTransparent ==
    wrap_arg # <<>> => wrap_result = wrap_line_result(wrap_arg[1], wrap_arg[2])

\* More keys than the cache holds were inserted, and the line was wrapped
\* again at a width whose entry had been evicted: the call missed and put
\* the key back as the newest entry.
C11_RewrappedAfterEviction ==
    /\ nops > WRAP_CACHE_SIZE
    /\ wrap_calls >= 1
    /\ wrap_arg = <<FillLine, 1>>
    /\ Len(WRAP_CACHE) = WRAP_CACHE_SIZE
    /\ WRAP_CACHE[Len(WRAP_CACHE)].key = wrap_arg
    /\ WRAP_CACHE[1].key = <<FillLine, 3>>

\* C12: the cache never holds more than WRAP_CACHE_SIZE entries; a call that
\* misses appends its entry, after removing the earliest-inserted entry when
\* the cache is full; a call that hits leaves the cache and its order alone.
C12_CacheBoundedFifo ==
    /\ [](Len(WRAP_CACHE) <= WRAP_CACHE_SIZE)
    /\ [][LET entry == [key |-> wrap_arg', value |-> wrap_result']
          IN  IF CacheIndex(WRAP_CACHE, wrap_arg') # 0
              THEN WRAP_CACHE' = WRAP_CACHE
              ELSE IF Len(WRAP_CACHE) >= WRAP_CACHE_SIZE
              THEN WRAP_CACHE' = Append(Tail(WRAP_CACHE), entry)
              ELSE WRAP_CACHE' = Append(WRAP_CACHE, entry)]_vars

\* The earliest entry was hit while the cache was not yet overfull, and was
\* nevertheless the one removed by the next insertion into the full cache.
C12_EvictedEarliestDespiteHit ==
    /\ nops = WRAP_CACHE_SIZE + 1
    /\ wrap_calls >= 1
    /\ wrap_arg = <<FillLine, nops>>
    /\ Len(WRAP_CACHE) = WRAP_CACHE_SIZE
    /\ CacheIndex(WRAP_CACHE, <<FillLine, 1>>) = 0
    /\ WRAP_CACHE[1].key = <<FillLine, 2>>

\* C13: in a document none of whose lines wraps at the width, the content
\* line that get_content_line_index gives for a valid display index d is
\* mapped back to d by get_display_line_index.
C13_DisplayIndexRoundTrip ==
    (/\ lookup # None
     /\ \A i \in 1..Len(state.content) :
            Len(wrap_line_result(state.content[i], lookup.text_width)) = 1
     /\ lookup.display_index < Len(lookup.display_lines))
    => /\ ~lookup.raised
       /\ lookup.display_again = lookup.display_index

\* C14: for a display index at or past the number of display lines,
\* get_content_line_index returns the index of the last line of the
\* document, also when lines wrap.
C14_OutOfRangeGivesLastLine ==
    (lookup # None /\ lookup.display_index >= Len(lookup.display_lines))
    => lookup.content_line = Len(state.content) - 1

\* C15: when main waits for a key, with H = box_h - 2 >= 1 rows of text and
\* d the display index main computed for the cursor's line, the scroll offset
\* is within 0..max(0, display lines - H), d is one of the H rows from the
\* offset on, and no offset with these two properties is nearer to the offset
\* before the adjustment.
C15_ScrollKeepsCursorVisible ==
    (screen # None /\ screen.at_getch /\ screen.box_h - 2 >= 1)
    => LET H == screen.box_h - 2
           total == Len(screen.display_lines)
           d == screen.display_cursor_y
           Distance(a, b) == IF a < b THEN b - a ELSE a - b
           InView(s) == /\ 0 <= s
                        /\ s <= Max(0, total - H)
                        /\ s <= d
                        /\ d < s + H
       IN  /\ CursorInBounds(state)
           /\ InView(state.scroll_y)
           /\ \A s \in 0..total :
                  InView(s) => Distance(state.scroll_y, screen.scroll_before)
                               <= Distance(s, screen.scroll_before)

\* The document got fewer display lines (a wider terminal) while the cursor's
\* line was in view: the offset was lowered to the last one that fills the
\* text area.
C15_ScrollLoweredToMaximum ==
    /\ screen # None
    /\ screen.at_getch
    /\ state.scroll_y > 0
    /\ state.scroll_y < screen.scroll_before
    /\ screen.scroll_before <= screen.display_cursor_y
    /\ state.scroll_y = Len(screen.display_lines) - (screen.box_h - 2)

\* The offset in the line of the k-th span of a list of spans that follow one
\* another from offset 0.
RECURSIVE SpanOffset(_, _)
SpanOffset(highlights, k) ==
    IF k = 1 THEN 0 ELSE SpanOffset(highlights, k - 1) + Len(highlights[k - 1][2])

\* C16: for every line and every language tag (of the table, not of the
\* table, absent), the spans highlight_syntax returns lie one after another
\* from the start of the line to its end, each with the text the line has
\* there: in order, without overlap, every character covered once.
C16_SpansCoverLineOnce ==
    spans.returned
    => LET hs == spans.highlights
       IN  /\ SpanOffset(hs, Len(hs) + 1) = Len(spans.line)
           /\ \A k \in 1..Len(hs) :
                  hs[k][2] = SubSeq(spans.line, SpanOffset(hs, k) + 1,
                                    SpanOffset(hs, k) + Len(hs[k][2]))

\* A line of the table's language with a match that was left out because it
\* starts before the end of a span already taken, and plain text on both
\* sides of a coloured span.
C16_MatchSkippedBetweenGaps ==
    /\ spans.returned
    /\ spans.language \in DOMAIN SYNTAX_PATTERNS
    /\ \E k \in 2..(Len(spans.highlights) - 1) :
           /\ spans.highlights[k - 1][1] = 0
           /\ spans.highlights[k][1] # 0
           /\ spans.highlights[k + 1][1] = 0
    /\ \E c \in 1..Len(SYNTAX_PATTERNS[spans.language]) :
           LET pattern_type == SYNTAX_PATTERNS[spans.language][c]
               matches == finditer(pattern_type, spans.line, 0)
           IN  \E m \in 1..Len(matches) :
                   \A k \in 1..Len(spans.highlights) :
                       SpanOffset(spans.highlights, k) # matches[m].start

\* C17: in highlight_syntax, whenever a match of a class earlier in the
\* language's table and a match of a later class overlap in the line, the
\* later class's match is not among the coloured spans.
C17_EarlierClassTakesPriority ==
    (spans.returned /\ spans.language \in DOMAIN SYNTAX_PATTERNS)
    => LET patterns == SYNTAX_PATTERNS[spans.language]
           hs == spans.highlights
           Matches(c) == finditer(patterns[c], spans.line, 0)
           Overlap(a, b) == a.start < b.end /\ b.start < a.end
           Emitted(c, m) ==
               \E k \in 1..Len(hs) :
                   /\ hs[k][1] = color(patterns[c], spans.language)
                   /\ SpanOffset(hs, k) = m.start
                   /\ Len(hs[k][2]) = m.end - m.start
       IN  \A earlier \in 1..Len(patterns) : \A later \in (earlier + 1)..Len(patterns) :
               \A i \in 1..Len(Matches(earlier)) : \A j \in 1..Len(Matches(later)) :
                   Overlap(Matches(earlier)[i], Matches(later)[j])
                   => ~Emitted(later, Matches(later)[j])

\* The last search_text call looked at the whole document.
SearchedWholeDocument ==
    ~search_state.search_in_selection
        \/ state.selection_start = None \/ state.selection_end = None

\* (row, col) comes before (row2, col2) in row-major order.
RowMajorBefore(a, b) == a[1] < b[1] \/ (a[1] = b[1] /\ a[2] < b[2])

\* The positions (row, col) where the text occurs in a line of the content.
Occurrences(content, text) ==
    {<<y, x>> \in (0..(Len(content) - 1)) \X (0..(MaxSearchLen + Len(ConcatenateCat))) :
        /\ x + Len(text) <= Len(content[y + 1])
        /\ SubSeq(content[y + 1], x + 1, x + Len(text)) = text}

\* The list holds exactly the positions of the set, in row-major order.
ListsInRowMajorOrder(matches, positions) ==
    /\ {matches[k] : k \in 1..Len(matches)} = positions
    /\ \A j, k \in 1..Len(matches) : j < k => RowMajorBefore(matches[j], matches[k])

\* C18: in literal, case-sensitive, non-whole-word mode over the whole
\* document, search_text returns exactly the positions (row, col) where the
\* pattern is a substring of content[row], overlapping occurrences included,
\* by increasing row and within a row by increasing column; "a" over ["aaa"]
\* gives columns 0, 1, 2.
C18_LiteralSearchFindsAllOccurrences ==
    (/\ search_state # None
     /\ ~search_state.regex
     /\ search_state.case_sensitive
     /\ ~search_state.whole_word
     /\ SearchedWholeDocument)
    => /\ search_state.raised = ""
       /\ ListsInRowMajorOrder(search_state.matches,
                               Occurrences(state.content, search_state.pattern))
       /\ (state.content = <<<<"a", "a", "a">>>> /\ search_state.pattern = <<"a">>)
              => search_state.matches = <<<<0, 0>>, <<0, 1>>, <<0, 2>>>>

\* Matches on two rows, two of them in one row overlapping each other.
C18_OverlappingMatchesOnTwoRows ==
    /\ search_state # None
    /\ ~search_state.regex
    /\ search_state.case_sensitive
    /\ ~search_state.whole_word
    /\ SearchedWholeDocument
    /\ \E j \in 1..(Len(search_state.matches) - 1) :
           /\ search_state.matches[j][1] = search_state.matches[j + 1][1]
           /\ search_state.matches[j + 1][2] - search_state.matches[j][2]
                  < Len(search_state.pattern)
    /\ \E j, k \in 1..Len(search_state.matches) :
           search_state.matches[j][1] # search_state.matches[k][1]

\* C19: with the whole-word flag set, search_text in literal mode reports an
\* occurrence of the pattern at (row, col) if and only if the character
\* before it is absent or not alphanumeric and the character after it is
\* absent or not alphanumeric; "cat" over ["concatenate cat"] gives one
\* match, at column 12.
C19_WholeWordTestsBothNeighbours ==
    (/\ search_state # None
     /\ ~search_state.regex
     /\ search_state.whole_word
     /\ SearchedWholeDocument)
    => LET fold(s) == IF search_state.case_sensitive THEN s ELSE lower(s)
           content == [i \in 1..Len(state.content) |-> fold(state.content[i])]
           pattern == fold(search_state.pattern)
           Alone(pos) ==
               LET line == state.content[pos[1] + 1]
                   after == pos[2] + Len(pattern)
               IN  /\ pos[2] = 0 \/ ~IsAlnum(line[pos[2]])
                   /\ after = Len(line) \/ ~IsAlnum(line[after + 1])
       IN  /\ search_state.raised = ""
           /\ ListsInRowMajorOrder(search_state.matches,
                                   {pos \in Occurrences(content, pattern) : Alone(pos)})
           /\ (state.content = <<ConcatenateCat>> /\ pattern = <<"c", "a", "t">>)
                  => search_state.matches = <<<<0, 12>>>>

\* The whole-word search of the example: of the two occurrences of "cat" the
\* one inside "concatenate" is left out.
C19_CatFoundOnceInConcatenateCat ==
    /\ search_state # None
    /\ ~search_state.regex
    /\ search_state.whole_word
    /\ SearchedWholeDocument
    /\ state.content = <<ConcatenateCat>>
    /\ search_state.pattern = <<"c", "a", "t">>
    /\ Occurrences(state.content, search_state.pattern) = {<<0, 3>>, <<0, 12>>}
    /\ search_state.matches = <<<<0, 12>>>>

\* C20: in regex mode, for a pattern that re refuses to compile, search_text
\* raises nothing and returns an empty list.
C20_MalformedPatternGivesNoMatches ==
    (/\ search_state # None
     /\ search_state.regex
     /\ re_compile(search_state.pattern).raised # "")
    => /\ search_state.raised = ""
       /\ search_state.matches = <<>>
       /\ ~crashed

\* C21: with selection-scoped search on and a selection present, anchor and
\* head in either order, search_text returns exactly the matches on the rows
\* from the lesser of the two rows to the greater, the last selected row
\* included.
C21_SelectionScopedSearchCoversSelectedRows ==
    (/\ search_state # None
     /\ search_state.search_in_selection
     /\ state.selection_start # None
     /\ state.selection_end # None
     /\ ~search_state.regex
     /\ ~search_state.whole_word
     /\ search_state.case_sensitive)
    => LET first == Min(state.selection_start[1], state.selection_end[1])
           last == Max(state.selection_start[1], state.selection_end[1])
       IN  /\ search_state.raised = ""
           /\ ListsInRowMajorOrder(
                  search_state.matches,
                  {pos \in Occurrences(state.content, search_state.pattern) :
                       first <= pos[1] /\ pos[1] <= last})

\* next_match and previous_match called k times in a row.
RECURSIVE NextMatchTimes(_, _)
NextMatchTimes(self, k) ==
    IF k = 0 THEN self ELSE NextMatchTimes(SearchState_next_match(self).self, k - 1)

RECURSIVE PreviousMatchTimes(_, _)
PreviousMatchTimes(self, k) ==
    IF k = 0 THEN self ELSE PreviousMatchTimes(SearchState_previous_match(self).self, k - 1)

\* C22: with n >= 1 matches and the index at i, next_match sets the index to
\* (i + 1) mod n and previous_match to (i - 1) mod n, each returns the match
\* at the new index, the index ends in 0..n-1, and n calls of either in a
\* row come back to the same match; with no match both return nothing and
\* leave the index alone.  Neither changes the list of matches.
C22_MatchNavigationWrapsAround ==
    search_state.call \in {"next_match", "previous_match"}
    => LET before == search_state.before
           self == search_state.self
           n == Len(before.matches)
           step == IF search_state.call = "next_match" THEN 1 ELSE -1
       IN  /\ self.matches = before.matches
           /\ n = 0 => (search_state.returned = None /\ self = before)
           /\ n >= 1 =>
                  /\ self.current_match = (before.current_match + step) % n
                  /\ self.current_match \in 0..(n - 1)
                  /\ search_state.returned = self.matches[self.current_match + 1]
                  /\ NextMatchTimes(self, n).current_match = self.current_match
                  /\ PreviousMatchTimes(self, n).current_match = self.current_match

\* next_match on the last of several matches went back to the first.
C22_NextMatchWrappedToFirst ==
    /\ search_state.call = "next_match"
    /\ Len(search_state.self.matches) >= 2
    /\ search_state.before.current_match = Len(search_state.self.matches) - 1
    /\ search_state.self.current_match = 0
    /\ Cursor(state) = search_state.self.matches[1]

\* C23: add_to_history appends a pattern only if it is not empty and differs
\* from the last search, and then makes it the last search;
\* get_previous_search and get_next_search leave the history list as it is,
\* keep the replay cursor within 0..len(history)-1 when the list is not
\* empty, and return nothing at either end.
C23_HistoryAppendsDistinctAndReplays ==
    LET before == search_state.before
        self == search_state.self
        pattern == search_state.arg
    IN  /\ self.search_history # <<>>
               => self.history_index \in 0..(Len(self.search_history) - 1)
        /\ search_state.call = "add_to_history" =>
               IF pattern # <<>> /\ pattern # before.last_search
               THEN /\ self.search_history = Append(before.search_history, pattern)
                    /\ self.last_search = pattern
               ELSE self = before
        /\ search_state.call = "get_previous_search" =>
               /\ self.search_history = before.search_history
               /\ before.history_index <= 0
                      => (search_state.returned = None /\ self = before)
               /\ before.history_index > 0
                      => search_state.returned = self.search_history[self.history_index + 1]
        /\ search_state.call = "get_next_search" =>
               /\ self.search_history = before.search_history
               /\ before.history_index >= Len(before.search_history) - 1
                      => (search_state.returned = None /\ self = before)
               /\ before.history_index < Len(before.search_history) - 1
                      => search_state.returned = self.search_history[self.history_index + 1]

\* The pattern of the last search was given again after the replay cursor had
\* gone back to the first entry: nothing was appended.
C23_RepeatedPatternNotAppended ==
    /\ search_state.call = "add_to_history"
    /\ search_state.arg # <<>>
    /\ search_state.arg = search_state.before.last_search
    /\ Len(search_state.self.search_history) >= 2
    /\ search_state.self.history_index = 0
    /\ search_state.self = search_state.before

\* C24: the search history has a fixed capacity: however many pairwise
\* different non-empty patterns are added, the list stays shorter than the
\* number of patterns the model adds.
C24_HistoryBounded ==
    LET history == search_state.self.search_history
    IN  (\A j, k \in 1..Len(history) : j # k => history[j] # history[k])
        => Len(history) < MaxHistory

\* C25: after the reset that ESC makes in search mode the pattern and the
\* match list are empty, the index is -1, the search is inactive and every
\* flag has its initial value.
C25_ResetRestoresInitialSession ==
    search_state.call = "reset"
    => LET self == search_state.self
       IN  /\ self.pattern = SearchState.pattern
           /\ self.matches = SearchState.matches
           /\ self.current_match = SearchState.current_match
           /\ self.search_active = SearchState.search_active
           /\ self.case_sensitive = SearchState.case_sensitive
           /\ self.whole_word = SearchState.whole_word
           /\ self.regex = SearchState.regex
           /\ self.search_in_selection = SearchState.search_in_selection
           /\ self.incremental = SearchState.incremental

\* C26: a file loaded and saved without a change has the text it had: no
\* save, the first or a later one after reopening, changes the text that was
\* loaded, so a file that ends in one line feed still ends in exactly one and
\* no line is added or removed.
C26_LoadSaveReproducesFile ==
    \A k \in 1..Len(log) : log[k].text = log[1].text

\* C27: the document always has at least one line, and Ctrl+Z pressed after
\* a key that changed the lines (Ctrl+K among them) gives back the lines the
\* document had before that key.
C27_KeysChangeLinesThroughCommands ==
    /\ Len(state.content) >= 1
    /\ \A n \in 2..Len(log) :
         (/\ n = Len(log)
          /\ ~crashed
          /\ log[n].op = "Ctrl+Z"
          /\ log[n - 1].op # "Ctrl+Z"
          /\ log[n - 1].state.content # log[n].state.content)
         => state.content = log[n - 1].state.content

\* The call was execute_command of a command of the given type, made with
\* the cursor inside the document.
Executed(call, type) ==
    /\ call.op = "execute"
    /\ call.command.type = type
    /\ CursorInBounds(call.state)

\* The lines of content with line r + 1 joined onto the end of line r
\* (rows counted from 0).
Merged(content, r) ==
    SliceTo(content, r) \o <<At(content, r) \o At(content, r + 1)>>
    \o SliceFrom(content, r + 2)

\* The call was a Backspace at column 0 of a row below the first.
BackspaceAtLineStart(call) ==
    /\ Executed(call, "Backspace")
    /\ call.state.cursor_x = 0
    /\ call.state.cursor_y > 0

\* C28: Backspace at column 0 of a row r > 0 joins line r onto the end of
\* line r-1 and puts the cursor at the join point; the undo that follows
\* gives back the two lines, the number of lines and the cursor (r, 0).
C28_BackspaceMergeAndUndo ==
    /\ (Len(log) >= 1 /\ BackspaceAtLineStart(LastCall))
       => /\ ~crashed
          /\ state.content = Merged(LastCall.state.content, LastCall.state.cursor_y - 1)
          /\ Cursor(state) = <<LastCall.state.cursor_y - 1,
                               Len(At(LastCall.state.content, LastCall.state.cursor_y - 1))>>
    /\ (DidTwo("execute", "undo") /\ BackspaceAtLineStart(PrevCall))
       => /\ ~crashed
          /\ Len(state.content) = Len(PrevCall.state.content)
          /\ state.content = PrevCall.state.content
          /\ Cursor(state) = Cursor(PrevCall.state)

\* The call was a Delete at the end of a line that is not the last.
DeleteAtLineEnd(call) ==
    /\ Executed(call, "Delete")
    /\ call.state.cursor_x = Len(At(call.state.content, call.state.cursor_y))
    /\ call.state.cursor_y < Len(call.state.content) - 1

\* C29: Delete at the end of a line that is not the last joins the next line
\* onto it and leaves the cursor where it was; the undo that follows gives
\* back the two lines and the cursor of before the Delete.
C29_DeleteMergeAndUndo ==
    /\ (Len(log) >= 1 /\ DeleteAtLineEnd(LastCall))
       => /\ ~crashed
          /\ state.content = Merged(LastCall.state.content, LastCall.state.cursor_y)
          /\ Cursor(state) = Cursor(LastCall.state)
    /\ (DidTwo("execute", "undo") /\ DeleteAtLineEnd(PrevCall))
       => /\ ~crashed
          /\ state.content = PrevCall.state.content
          /\ Cursor(state) = Cursor(PrevCall.state)

\* The call was an Insert in overwrite mode with the cursor on a character.
OverwriteOnCharacter(call) ==
    /\ Executed(call, "Insert")
    /\ ~call.state.insert_mode
    /\ call.state.cursor_x < Len(At(call.state.content, call.state.cursor_y))

\* C30: an Insert in overwrite mode with the cursor on a character puts its
\* character in place of that one, moves the cursor one column right and
\* leaves the line as long as it was; the undo that follows gives back the
\* character, the lines and the cursor of before the Insert.
C30_OverwriteAndUndo ==
    /\ (Len(log) >= 1 /\ OverwriteOnCharacter(LastCall))
       => /\ ~crashed
          /\ state.content =
                 SetAt(LastCall.state.content, LastCall.state.cursor_y,
                       SetAt(At(LastCall.state.content, LastCall.state.cursor_y),
                             LastCall.state.cursor_x, LastCall.command.char[1]))
          /\ Cursor(state) = <<LastCall.state.cursor_y, LastCall.state.cursor_x + 1>>
    /\ (DidTwo("execute", "undo") /\ OverwriteOnCharacter(PrevCall))
       => /\ ~crashed
          /\ state.content = PrevCall.state.content
          /\ Cursor(state) = Cursor(PrevCall.state)

\* The call, an execute_command or a redo, that put on the undo stack the
\* command which the undo at position n of the log took off: the last call
\* before n that found the stack one command shorter.
PushOf(n) ==
    CHOOSE m \in 1..(n - 1) :
        /\ log[m].op \in {"execute", "redo"}
        /\ Len(log[m].undo_stack) = Len(log[n].undo_stack) - 1
        /\ \A k \in (m + 1)..(n - 1) :
               ~(/\ log[k].op \in {"execute", "redo"}
                 /\ Len(log[k].undo_stack) = Len(log[n].undo_stack) - 1)

\* The last call was the undo of a Replace-all.
UndidReplace ==
    /\ Len(log) >= 2
    /\ ~crashed
    /\ LastCall.op = "undo"
    /\ LastCall.command.type = "Replace"

\* C31: the undo of a Replace-all leaves the lines the document had when the
\* command was executed (by execute_command or by the redo before this
\* undo), letter case included, whatever was executed and undone in between.
C31_UndoReplaceRestoresSnapshot ==
    UndidReplace => state.content = log[PushOf(Len(log))].state.content

\* C31 witness: a case-insensitive Replace-all that changed the lines was
\* executed, undone, redone and undone again, and the lines are those of
\* before the first execute, capitals included.
C31_SecondUndoOfCaseInsensitiveReplace ==
    /\ Len(log) = 4
    /\ UndidReplace
    /\ log[1].op = "execute" /\ log[2].op = "undo" /\ log[3].op = "redo"
    /\ ~log[1].command.case_sensitive
    /\ log[2].state.content # log[1].state.content
    /\ \E i \in 1..Len(state.content) : \E j \in 1..Len(state.content[i]) :
           state.content[i][j] \in {"A", "B"}
    /\ state.content = log[1].state.content

\* The line and the width of the last wrap_line call, and what follows from
\* them: the leading whitespace, the text after it and the columns left.
WrappedLine == wrap_arg[1]

WrappedWidth == wrap_arg[2]

WrappedIndent == Indent(WrappedLine)

\* wrap_line was called and the line was longer than the width and had words.
Wrapped ==
    /\ wrap_arg # <<>>
    /\ Len(WrappedLine) > WrappedWidth
    /\ split(WrappedLine) # <<>>

\* C32: for a width greater than the line's leading-whitespace length, every
\* sub-line wrap_line returns is at most width characters long, and every
\* sub-line of a wrapped line starts with the line's own leading whitespace.
C32_SubLinesFitAndKeepIndent ==
    (wrap_arg # <<>> /\ WrappedWidth > WrappedIndent)
    => \A i \in 1..Len(wrap_result) :
         /\ Len(wrap_result[i]) <= WrappedWidth
         /\ Wrapped => /\ Len(wrap_result[i]) >= WrappedIndent
                       /\ SliceTo(wrap_result[i], WrappedIndent)
                              = SliceTo(WrappedLine, WrappedIndent)

\* C33: when no word of the line is longer than width - indent, the sub-lines
\* hold the words in order, and a word opens a new sub-line only if the
\* sub-line before it, with one blank and the word added, would be longer
\* than width - indent.
C33_WordsPackedGreedily ==
    (/\ Wrapped
     /\ \A k \in 1..Len(split(WrappedLine)) :
            Len(split(WrappedLine)[k]) <= WrappedWidth - WrappedIndent)
    => \A i \in 1..(Len(wrap_result) - 1) :
         LET content == SliceFrom(wrap_result[i], WrappedIndent)
             word == split(wrap_result[i + 1])[1]
         IN  Len(content) + 1 + Len(word) > WrappedWidth - WrappedIndent

\* C34: for a line with a character that is not whitespace and any width
\* from 1 on, no sub-line wrap_line returns is empty after the indent.
C34_NoEmptySubLine ==
    (wrap_arg # <<>> /\ split(WrappedLine) # <<>>)
    => \A i \in 1..Len(wrap_result) :
         SliceFrom(wrap_result[i], WrappedIndent) # <<>>

BackspaceAtDocumentStart(call) ==
    /\ Executed(call, "Backspace")
    /\ call.state.cursor_x = 0
    /\ call.state.cursor_y = 0

\* C36: a Backspace executed at (0,0) changes neither the lines nor the
\* cursor, and the undo that follows changes neither: the cursor is still
\* (0,0), a position of the document, also on an empty line.
C36_BackspaceAtStartIsNoOp ==
    /\ (Len(log) >= 1 /\ BackspaceAtDocumentStart(LastCall))
       => /\ ~crashed
          /\ state.content = LastCall.state.content
          /\ Cursor(state) = <<0, 0>>
    /\ (DidTwo("execute", "undo") /\ BackspaceAtDocumentStart(PrevCall))
       => /\ ~crashed
          /\ state.content = PrevCall.state.content
          /\ Cursor(state) = <<0, 0>>
          /\ CursorInBounds(state)

\* C37: with n >= 2 matches and the index at -1, where every new query puts
\* it, previous_match selects the last match, index n - 1, as next_match
\* selects the first, index 0.
C37_FirstPreviousMatchIsLast ==
    (/\ search_state.call \in {"next_match", "previous_match"}
     /\ search_state.before.current_match = -1
     /\ Len(search_state.before.matches) >= 2)
    => LET n == Len(search_state.before.matches)
           i == IF search_state.call = "next_match" THEN 0 ELSE n - 1
       IN  /\ search_state.self.current_match = i
           /\ search_state.returned = search_state.before.matches[i + 1]

\* C38: a Move executed with the shift flag set and no selection makes the
\* cursor position of before the move the anchor and the position after it
\* the head; with a selection it keeps the anchor and moves the head to the
\* cursor; without the shift flag it clears both.
C38_ShiftedMoveSelectsDistanceMoved ==
    (Len(log) >= 1 /\ Executed(LastCall, "Move") /\ ~crashed)
    => LET before == LastCall.state
       IN  IF ~before.shift_pressed
           THEN state.selection_start = None /\ state.selection_end = None
           ELSE /\ state.selection_end = Cursor(state)
                /\ state.selection_start =
                       IF before.selection_start = None
                       THEN Cursor(before) ELSE before.selection_start

\* The keys of the key session that move the cursor or only set the shift
\* flag, and are not recorded as commands.
IsNavigationKey(key) == key \in {"KEY_DOWN", "KEY_SRIGHT"}

\* C39: Ctrl+Z pressed after a character was typed, with nothing but
\* navigation keys pressed in between, takes out the character typed and no
\* other: the lines are those of before the character.
C39_UndoRemovesInsertedCharacter ==
    \A m \in 1..(Len(log) - 1) :
        (/\ ~crashed
         /\ LastCall.op = "Ctrl+Z"
         /\ log[m].op = "char"
         /\ \A k \in (m + 1)..(Len(log) - 1) : IsNavigationKey(log[k].op))
        => state.content = log[m].state.content

====
